---------------------------- MODULE Spec2Model ----------------------------
(***************************************************************************)
(* Deployment orchestration of NodeInfra: ClusterManager.deploy/destroy    *)
(* (tools/cluster.py) over TerraformManager (tools/terraform.py),          *)
(* EKSManager (tools/eks.py), HelmManager (tools/helm.py) and the          *)
(* validation loops (tools/validation.py), with run_command/fail           *)
(* (tools/utils.py).                                                       *)
(*                                                                         *)
(* The external systems (terraform, aws, helm, the Kubernetes API, the     *)
(* HTTP endpoint) are the environment: every call draws its result from a  *)
(* small set.  Python exceptions are modelled by their class name; fail()  *)
(* is sys.exit(1), i.e. SystemExit, which is not an Exception.             *)
(***************************************************************************)
EXTENDS Integers, Sequences, FiniteSets, TLC

(***************************************************************************)
(* Bounds of the model.                                                    *)
(***************************************************************************)
MaxPods == 2        \* pods in one list_namespaced_pod response
MaxTimeout == 2     \* timeouts of the deadline loops, in clock ticks
MaxInterval == 2    \* sleep interval of the loops, in clock ticks
MaxCallTime == 1    \* clock ticks that pass during one poll
MaxRetries == 2     \* attempt budget of the load-balancer/API loop

(***************************************************************************)
(* Python values.                                                          *)
(***************************************************************************)
None == "<None>"    \* Python's None (no modelled string equals it)

\* bool(x) for x a string or None: None and "" are falsy.
Truthy(x) == x /= None /\ x /= ""

\* d.get(key, default) on a mapping modelled as a function.
Get(d, key, default) == IF key \in DOMAIN d THEN d[key] ELSE default

\* a or b
Or(a, b) == IF Truthy(a) THEN a ELSE b

EmptyMap == [k \in {} |-> None]

(***************************************************************************)
(* Exceptions.  SystemExit and KeyboardInterrupt derive from BaseException *)
(* only, so `except Exception` does not catch them.                        *)
(***************************************************************************)
NoExc == "none"

ExceptionClasses ==
    {"RuntimeError", "OSError", "AttributeError", "ApiException", "TypeError",
     "KeyError"}

BaseOnlyClasses == {"SystemExit", "KeyboardInterrupt"}

IsException(e) == e \in ExceptionClasses

(***************************************************************************)
(* utils.run_command: the result of subprocess.run, and what run_command   *)
(* does with it.  A process result is [spawned, rc, stderr]; subprocess.run*)
(* raises OSError when the executable cannot be started.                   *)
(***************************************************************************)
NotFoundErr == <<"An error occurred", "ResourceNotFoundException", "No cluster found">>
DeniedErr == <<"An error occurred", "AccessDeniedException">>

ProcOk == [spawned |-> TRUE, rc |-> 0, stderr |-> <<>>]
ProcFail(err) == [spawned |-> TRUE, rc |-> 1, stderr |-> err]
ProcNoSpawn == [spawned |-> FALSE, rc |-> 0, stderr |-> <<>>]

\* results of a command whose stderr text plays no role
ProcResults == {ProcOk, ProcFail(<<>>), ProcNoSpawn}

\* results of `aws eks describe-cluster`
DescribeResults == {ProcOk, ProcFail(NotFoundErr), ProcFail(DeniedErr),
                    ProcFail(<<>>), ProcNoSpawn}

\* utils.fail: error(msg); sys.exit(1)
fail == "SystemExit"

\* run_command with `check` ignored: a non-zero exit is returned to the caller
run_command_unchecked(proc, check) ==
    IF ~proc.spawned THEN "OSError" ELSE NoExc

\* The exception run_command ends with (NoExc when it returns proc).
run_command(proc, check) ==
    IF ~proc.spawned THEN "OSError"
    ELSE IF check /\ proc.rc /= 0 THEN fail
    ELSE NoExc

\* `needle in text`, the text being a sequence of fragments
Contains(text, needle) == \E i \in 1..Len(text) : text[i] = needle


(***************************************************************************)
(* terraform.py: TerraformManager.get_outputs.                             *)
(* stdout of `terraform output -json` is modelled by its syntactic class   *)
(* (json) and, for a JSON object, by its entries (obj): every entry is     *)
(* [isdict, hasvalue, value].                                              *)
(***************************************************************************)
OutputKeys == {"cluster_name", "region", "vpc_id"}

Wrapped(v) == [isdict |-> TRUE, hasvalue |-> TRUE, value |-> v]
NoValueEntry == [isdict |-> TRUE, hasvalue |-> FALSE, value |-> None]
BareEntry == [isdict |-> FALSE, hasvalue |-> FALSE, value |-> None]

ClusterNameEntries == {Wrapped("out-cluster"), Wrapped(""), NoValueEntry}
RegionEntries == {Wrapped("out-region"), BareEntry}
VpcEntries == {Wrapped("vpc-1")}

EntriesOf(k) ==
    CASE k = "cluster_name" -> ClusterNameEntries
      [] k = "region" -> RegionEntries
      [] OTHER -> VpcEntries

\* the JSON objects terraform may print
RawObjects ==
    UNION {{o \in [ks -> UNION {EntriesOf(k) : k \in ks}] :
                \A k \in ks : o[k] \in EntriesOf(k)} : ks \in SUBSET OutputKeys}

TfStdouts ==
    {[json |-> "blank", obj |-> EmptyMap],
     [json |-> "garbage", obj |-> EmptyMap],
     [json |-> "nonobject", obj |-> EmptyMap]}
    \cup {[json |-> "object", obj |-> o] : o \in RawObjects}

\* results of `terraform output -json`
OutputResults ==
    {[spawned |-> FALSE, rc |-> 0, stdout |-> [json |-> "blank", obj |-> EmptyMap]],
     [spawned |-> TRUE, rc |-> 1, stdout |-> [json |-> "blank", obj |-> EmptyMap]]}
    \cup {[spawned |-> TRUE, rc |-> 0, stdout |-> t] : t \in TfStdouts}

\* the loop over raw.items(): keep the `value` of every dict entry that has one
ExtractValues(raw) ==
    [k \in {j \in DOMAIN raw : raw[j].isdict /\ raw[j].hasvalue} |-> raw[k].value]

\* get_outputs without the `except json.JSONDecodeError` clause
get_outputs_no_except(proc) ==
    IF run_command(proc, FALSE) /= NoExc
    THEN [exc |-> run_command(proc, FALSE), val |-> EmptyMap]
    ELSE IF proc.rc /= 0 THEN [exc |-> NoExc, val |-> EmptyMap]
    ELSE IF proc.stdout.json = "blank" THEN [exc |-> NoExc, val |-> EmptyMap]
    ELSE IF proc.stdout.json = "garbage"
    THEN [exc |-> "JSONDecodeError", val |-> EmptyMap]
    ELSE IF proc.stdout.json = "nonobject"
    THEN [exc |-> "AttributeError", val |-> EmptyMap]
    ELSE [exc |-> NoExc, val |-> ExtractValues(proc.stdout.obj)]

\* get_outputs: [exc, val]; check=False, so a non-zero exit is not fatal
get_outputs(proc) ==
    IF run_command(proc, FALSE) /= NoExc
    THEN [exc |-> run_command(proc, FALSE), val |-> EmptyMap]
    ELSE IF proc.rc /= 0 THEN [exc |-> NoExc, val |-> EmptyMap]
    ELSE IF proc.stdout.json = "blank" THEN [exc |-> NoExc, val |-> EmptyMap]
    ELSE IF proc.stdout.json = "garbage"          \* json.JSONDecodeError, caught
    THEN [exc |-> NoExc, val |-> EmptyMap]
    ELSE IF proc.stdout.json = "nonobject"        \* raw.items() on a non-dict
    THEN [exc |-> "AttributeError", val |-> EmptyMap]
    ELSE [exc |-> NoExc, val |-> ExtractValues(proc.stdout.obj)]

\* `if outputs:` / `if not outputs:`
NonEmpty(d) == DOMAIN d /= {}

(***************************************************************************)
(* terraform.py: build_var_args.  Variable values are strings, None,       *)
(* or the booleans "py:True"/"py:False" (rendered "true"/"false").         *)
(***************************************************************************)
PyTrue == "py:True"
PyFalse == "py:False"

PyOne == "py:1"           \* the int 1
PyList == "py:[True]"     \* the list [True]

\* VarText without the isinstance(value, bool) branch: str(True), str(False)
VarTextPythonBool(v) ==
    CASE v = PyTrue -> "True"
      [] v = PyFalse -> "False"
      [] v = PyOne -> "1"
      [] v = PyList -> "[true]"
      [] OTHER -> v

\* the text after `key=`: "true"/"false" for a bool, json.dumps for a list
\* or dict, the f-string rendering of anything else
VarText(v) ==
    CASE v = PyTrue -> "true"
      [] v = PyFalse -> "false"
      [] v = PyOne -> "1"
      [] v = PyList -> "[true]"
      [] OTHER -> v

\* build_var_args without `if value is None: continue`
build_var_args_with_null(variables) ==
    {[key |-> k, text |-> VarText(variables[k])] : k \in DOMAIN variables}

\* the -var arguments, as the set of [key, text] pairs emitted
build_var_args(variables) ==
    {[key |-> k, text |-> VarText(variables[k])] :
        k \in {j \in DOMAIN variables : variables[j] /= None}}

\* the terraform_vars a caller may pass
TerraformVarsSet ==
    {EmptyMap,
     [k \in {"validator_name", "region", "enable_dns", "dns_zone"} |->
        CASE k = "validator_name" -> "val"
          [] k = "region" -> "eu-west-1"
          [] k = "enable_dns" -> PyFalse
          [] OTHER -> None]}

\* str + "-cluster"
ClusterSuffix(name) ==
    CASE name = "val" -> "val-cluster"
      [] name = "demo" -> "demo-cluster"
      [] name = "" -> "-cluster"
      [] OTHER -> name

(***************************************************************************)
(* eks.py: EKSManager.                                                     *)
(***************************************************************************)
\* cluster_exists with every non-zero exit read as "no such cluster"
cluster_exists_any_error(proc) ==
    IF run_command(proc, FALSE) /= NoExc
    THEN [exc |-> run_command(proc, FALSE), ret |-> FALSE]
    ELSE [exc |-> NoExc, ret |-> proc.rc = 0]

\* cluster_exists: [exc, ret]
cluster_exists(proc) ==
    IF run_command(proc, FALSE) /= NoExc
    THEN [exc |-> run_command(proc, FALSE), ret |-> FALSE]
    ELSE IF proc.rc = 0 THEN [exc |-> NoExc, ret |-> TRUE]
    ELSE IF Contains(proc.stderr, "ResourceNotFoundException")
    THEN [exc |-> NoExc, ret |-> FALSE]
    ELSE [exc |-> fail, ret |-> FALSE]

\* stdout of describe-cluster --query cluster.status --output text
StatusTexts == {"ACTIVE\n", "CREATING\n", "FAILED\n", "DELETING\n", ""}

\* str.strip() on the texts above
StripStatus(t) ==
    CASE t = "ACTIVE\n" -> "ACTIVE"
      [] t = "CREATING\n" -> "CREATING"
      [] t = "FAILED\n" -> "FAILED"
      [] t = "DELETING\n" -> "DELETING"
      [] OTHER -> ""

StatusResults ==
    {[spawned |-> FALSE, rc |-> 0, stdout |-> ""],
     [spawned |-> TRUE, rc |-> 1, stdout |-> ""]}
    \cup {[spawned |-> TRUE, rc |-> 0, stdout |-> t] : t \in StatusTexts}

\* get_cluster_status: [exc, ret]; None when the command exits non-zero
get_cluster_status(proc) ==
    IF run_command(proc, FALSE) /= NoExc
    THEN [exc |-> run_command(proc, FALSE), ret |-> None]
    ELSE IF proc.rc /= 0 THEN [exc |-> NoExc, ret |-> None]
    ELSE [exc |-> NoExc, ret |-> StripStatus(proc.stdout)]

\* WaitVerdict with the ACTIVE test missing
WaitVerdictWithoutActive(status) ==
    IF status \in {"FAILED", "DELETING"} THEN "fatal" ELSE "wait"

\* WaitVerdict with FAILED as the only terminal state
WaitVerdictFailedOnly(status) ==
    IF status = "ACTIVE" THEN "success"
    ELSE IF status = "FAILED" THEN "fatal"
    ELSE "wait"

\* WaitVerdict taking a status of None for ACTIVE
WaitVerdictNoneIsActive(status) ==
    IF status \in {"ACTIVE", None} THEN "success"
    ELSE IF status \in {"FAILED", "DELETING"} THEN "fatal"
    ELSE "wait"

\* one iteration of wait_until_active after the status was read
WaitVerdict(status) ==
    IF status = "ACTIVE" THEN "success"
    ELSE IF status \in {"FAILED", "DELETING"} THEN "fatal"
    ELSE "wait"

(***************************************************************************)
(* validation.py: wait_for_pod_ready, one poll response.  A pod is its     *)
(* phase and `pod.status.conditions or []`.                                *)
(***************************************************************************)
Cond(t, s) == [type |-> t, status |-> s]

Pod(phase, conditions) == [phase |-> phase, conditions |-> conditions]

\* the pods a response may list: not scheduled yet, running but not ready,
\* running and ready, failed
Pods ==
    {Pod("Pending", <<>>),
     Pod("Running", <<Cond("Ready", "False")>>),
     Pod("Running", <<Cond("PodScheduled", "True"), Cond("Ready", "True")>>),
     Pod("Failed", <<Cond("Ready", "False")>>)}

PodLists == UNION {[1..n -> Pods] : n \in 0..MaxPods}

\* the inner loop over pod.status.conditions
HasReadyCondition(pod) ==
    \E i \in 1..Len(pod.conditions) :
        pod.conditions[i].type = "Ready" /\ pod.conditions[i].status = "True"

\* ScanPods without the check of the phase
RECURSIVE ScanPodsWithoutPhase(_, _)
ScanPodsWithoutPhase(pods, i) ==
    IF i > Len(pods) THEN "none"
    ELSE IF HasReadyCondition(pods[i]) THEN "ready"
    ELSE ScanPodsWithoutPhase(pods, i + 1)

\* ScanPods taking an empty list for a failure
RECURSIVE ScanPodsEmptyFails(_, _)
ScanPodsEmptyFails(pods, i) ==
    IF Len(pods) = 0 THEN "failed"
    ELSE IF i > Len(pods) THEN "none"
    ELSE IF HasReadyCondition(pods[i]) THEN "ready"
    ELSE IF pods[i].phase = "Failed" THEN "failed"
    ELSE ScanPodsEmptyFails(pods, i + 1)

\* the loop `for pod in pods`, from index i: "ready" (return), "failed"
\* (fail) or "none" (fall through to the sleep)
RECURSIVE ScanPods(_, _)
ScanPods(pods, i) ==
    IF i > Len(pods) THEN "none"
    ELSE IF HasReadyCondition(pods[i]) THEN "ready"
    ELSE IF pods[i].phase = "Failed" THEN "failed"
    ELSE ScanPods(pods, i + 1)

(***************************************************************************)
(* validation.py: wait_for_loadbalancer_and_api, one attempt.              *)
(***************************************************************************)
\* str.strip() on the hostnames and addresses of the model
StripHost(h) == IF h = " " THEN "" ELSE h

Ingress == [hostname : {None, "lb.example.com", " "}, ip : {None, "10.0.0.1"}]

\* read_namespaced_service: an ApiException, or the service's ingress list
\* (svc.status, load_balancer or ingress being None reads as the empty list)
ServiceResults ==
    {[exc |-> "ApiException", ingress |-> <<>>], [exc |-> NoExc, ingress |-> <<>>]}
    \cup {[exc |-> NoExc, ingress |-> <<g>>] : g \in Ingress}

\* host = (ingress[0].hostname or ingress[0].ip or "").strip()
HostOf(ingress) ==
    IF Len(ingress) = 0 THEN ""
    ELSE StripHost(Or(Or(ingress[1].hostname, ingress[1].ip), ""))

\* JSON values of the ledger_version field: [t, n, s] with t the JSON type,
\* n the number (t = "int") and s the characters (t = "str")
IntVal(n) == [t |-> "int", n |-> n, s |-> <<>>]
StrVal(s) == [t |-> "str", n |-> 0, s |-> s]
NullVal == [t |-> "null", n |-> 0, s |-> <<>>]
FloatVal == [t |-> "float", n |-> 1, s |-> <<>>]     \* the number 1.5
BoolVal == [t |-> "bool", n |-> 1, s |-> <<>>]       \* true

SuperscriptTwo == "U+00B2"   \* one character, category No, Numeric_Type=Digit

AsciiDigits == {"0", "1", "2", "3", "4", "5", "6", "7", "8", "9"}

MarkerValues ==
    {IntVal(0), IntVal(27), IntVal(-1), StrVal(<<"4", "2">>), StrVal(<<"-", "1">>),
     StrVal(<<"a", "b", "c">>), StrVal(<<>>), StrVal(<<SuperscriptTwo>>),
     NullVal, FloatVal, BoolVal}

DigitChar(d) ==
    CASE d = 0 -> "0" [] d = 1 -> "1" [] d = 2 -> "2" [] d = 3 -> "3"
      [] d = 4 -> "4" [] d = 5 -> "5" [] d = 6 -> "6" [] d = 7 -> "7"
      [] d = 8 -> "8" [] OTHER -> "9"

RECURSIVE Decimal(_)
Decimal(n) == IF n < 10 THEN <<DigitChar(n)>>
              ELSE Append(Decimal(n \div 10), DigitChar(n % 10))

\* str(v), as a sequence of characters
Str(v) ==
    CASE v.t = "int" -> IF v.n < 0 THEN <<"-">> \o Decimal(-v.n) ELSE Decimal(v.n)
      [] v.t = "str" -> v.s
      [] v.t = "null" -> <<"N", "o", "n", "e">>
      [] v.t = "float" -> <<"1", ".", "5">>
      [] OTHER -> <<"T", "r", "u", "e">>

\* str.isdigit(): non-empty and every character has the Unicode property
\* Digit, which the superscript digits have too
IsDigit(s) ==
    Len(s) > 0 /\ \A i \in 1..Len(s) : s[i] \in AsciiDigits \cup {SuperscriptTwo}

\* the HTTP exchange of one attempt: urlopen raises URLError (kind "urlerror")
\* or HTTPError (kind "httperror"), or returns a response with a status and a
\* body; the body is modelled by its JSON class and its ledger_version field
Body(json, has, marker) == [json |-> json, has |-> has, marker |-> marker]

Bodies ==
    {Body("garbage", FALSE, NullVal), Body("nonobject", FALSE, NullVal),
     Body("object", FALSE, NullVal)}
    \cup {Body("object", TRUE, m) : m \in MarkerValues}

HttpResults ==
    {[kind |-> "urlerror", status |-> 0, body |-> Body("garbage", FALSE, NullVal)],
     [kind |-> "httperror", status |-> 503, body |-> Body("garbage", FALSE, NullVal)],
     [kind |-> "response", status |-> 204, body |-> Body("garbage", FALSE, NullVal)]}
    \cup {[kind |-> "response", status |-> 200, body |-> b] : b \in Bodies}

\* str(payload.get("ledger_version", ""))
LedgerVersion(body) == IF body.has THEN Str(body.marker) ELSE <<>>

\* the try block around urlopen: "healthy" (return host) or "retry"; every
\* exception raised inside it (URLError, HTTPError, JSONDecodeError,
\* AttributeError of a non-dict payload) is caught and logged
ProbeVerdict(http) ==
    IF http.kind /= "response" THEN "retry"
    ELSE IF http.status /= 200 THEN "retry"
    ELSE IF http.body.json /= "object" THEN "retry"
    ELSE IF IsDigit(LedgerVersion(http.body)) THEN "healthy"
    ELSE "retry"

(***************************************************************************)
(* State.                                                                  *)
(***************************************************************************)
VARIABLES
    op,              \* the ClusterManager operation: "deploy" or "destroy"
    skip_if_exists,  \* deploy's argument
    validate,        \* deploy's argument
    terraform_vars,  \* the caller's variable mapping
    pc,              \* the statement the operation is at
    exc,             \* the exception the operation ended with (NoExc: none)
    returned,        \* the operation returned normally
    outputs,         \* local `outputs`
    cluster_name,    \* local `cluster_name`
    region,          \* local `region`
    var_args,        \* the -var arguments last passed to terraform
    cmds,            \* the commands issued through run_command, in order
    warned,          \* destroy logged "Failed to uninstall Helm release"
    describe,        \* result of the describe-cluster call of cluster_exists
    exists,          \* what cluster_exists returned ("unknown": not called)
    clock,           \* time.time() since the deadline of the loop was set
    deadline,        \* deadline of the current deadline loop
    interval,        \* sleep interval of the current loop
    status,          \* the last cluster status wait_until_active read
    eksPolls,        \* get_cluster_status calls
    eksSleeps,       \* sleeps of wait_until_active
    eksState,        \* wait_until_active: idle, polling, success, fatal, timeout
    pods,            \* the last pod list wait_for_pod_ready read
    podPolls,        \* list_namespaced_pod calls
    podSleeps,       \* sleeps of wait_for_pod_ready
    podState,        \* wait_for_pod_ready: idle, polling, ready, failed, timeout
    retries,         \* attempt budget of wait_for_loadbalancer_and_api
    attempt,         \* its loop variable
    host,            \* the load-balancer address of the current attempt
    http,            \* the HTTP exchange of the last probe
    lbReads,         \* read_namespaced_service calls
    httpGets,        \* urlopen calls
    lbSleeps,        \* sleeps of wait_for_loadbalancer_and_api
    lbState,         \* its state: idle, polling, healthy, timeout
    exit_code,       \* exit code of the CLI process (<<>>: still running)
    call,            \* a single call of a function: its name, input and result
    helm_config,     \* deploy's argument: the bootstrap set-values it carries
    tf_state         \* the outputs held by the terraform state of the script

args == <<op, skip_if_exists, validate, terraform_vars, helm_config>>
ctl == <<pc, exc, returned, exit_code>>
locals == <<outputs, cluster_name, region, var_args>>
logs == <<cmds, warned>>
existv == <<describe, exists>>
timev == <<clock, deadline, interval>>
eksv == <<status, eksPolls, eksSleeps, eksState>>
podv == <<pods, podPolls, podSleeps, podState>>
lbv == <<retries, attempt, host, http, lbReads, httpGets, lbSleeps, lbState>>

vars == <<args, ctl, locals, logs, existv, timev, eksv, podv, lbv, call, tf_state>>

\* the set-values of a helm_config are not followed in this run
NoHelmConfig == [enabled |-> "unset"]

\* no single function call is under way while an operation runs
NoCall == [fn |-> "none"]

(***************************************************************************)
(* The command-line layer (cli.py 86-127, utils.py 88-113).                *)
(***************************************************************************)
\* the env file named on the command line
EnvFiles == {"present", "missing", "unreadable"}

\* load_env_file: fail() when the file does not exist; open() raises OSError
\* for a file that cannot be read
load_env_file(file) ==
    CASE file = "missing" -> fail
      [] file = "unreadable" -> "OSError"
      [] OTHER -> NoExc

\* `return 0`, `return 130`, `return 1`, and the code of fail()'s sys.exit(1)
ExitSuccess == 0
ExitInterrupted == 130
ExitFailure == 1
FailCode == 1

\* CliExitCode treating KeyboardInterrupt as any other failure
CliExitCodeNoInterrupt(e) ==
    CASE e = NoExc -> ExitSuccess
      [] e = fail -> FailCode
      [] OTHER -> ExitFailure

\* the exit code of the process for the way the operation ended: the two
\* handlers of run_deployment_cli, and SystemExit passing through both to
\* the interpreter (the script runs sys.exit(run_deployment_cli(...)))
CliExitCode(e) ==
    CASE e = NoExc -> ExitSuccess
      [] e = "KeyboardInterrupt" -> ExitInterrupted
      [] IsException(e) -> ExitFailure
      [] e = fail -> FailCode
      [] OTHER -> ExitFailure

NoHttp == [kind |-> "none", status |-> 0, body |-> Body("garbage", FALSE, NullVal)]
NoProc == [spawned |-> FALSE, rc |-> -1, stderr |-> <<>>]

Timeouts == 0..MaxTimeout
Intervals == 1..MaxInterval
CallTimes == 0..MaxCallTime
RetryBudgets == 0..MaxRetries

\* one entry of the command log: the command and how the process ended
Ran(cmd, proc) ==
    [cmd |-> cmd,
     res |-> IF ~proc.spawned THEN "nospawn"
             ELSE IF proc.rc = 0 THEN "zero" ELSE "nonzero"]

Issued(cmd) == \E i \in 1..Len(cmds) : cmds[i].cmd = cmd

\* nothing has run yet: no exception, no locals, empty log, idle loops
Fresh ==
    /\ exc = NoExc
    /\ returned = FALSE
    /\ outputs = EmptyMap
    /\ cluster_name = None
    /\ region = None
    /\ var_args = {}
    /\ cmds = <<>>
    /\ warned = FALSE
    /\ describe = NoProc
    /\ exists = "unknown"
    /\ clock = 0
    /\ deadline = 0
    /\ interval = 1
    /\ status = None
    /\ eksPolls = 0
    /\ eksSleeps = 0
    /\ eksState = "idle"
    /\ pods = <<>>
    /\ podPolls = 0
    /\ podSleeps = 0
    /\ podState = "idle"
    /\ retries = 0
    /\ attempt = 0
    /\ host = ""
    /\ http = NoHttp
    /\ lbReads = 0
    /\ httpGets = 0
    /\ lbSleeps = 0
    /\ lbState = "idle"
    /\ exit_code = <<>>

Init ==
    /\ op \in {"deploy", "destroy"}
    /\ skip_if_exists \in BOOLEAN
    /\ validate \in BOOLEAN
    /\ (op = "destroy") => (~skip_if_exists /\ ~validate)
    /\ terraform_vars \in TerraformVarsSet
    /\ pc = "cli_load_env"
    /\ Fresh
    /\ call = NoCall
    /\ helm_config = NoHelmConfig
    /\ tf_state = EmptyMap

\* an exception leaves the operation (nothing on the way catches it) and
\* reaches run_deployment_cli, which ends the process
Propagate(e) ==
    /\ pc' = "done"
    /\ exc' = e
    /\ returned' = FALSE
    /\ exit_code' = <<CliExitCode(e)>>

\* the operation returns to run_deployment_cli, which returns 0
Return ==
    /\ pc' = "done"
    /\ returned' = TRUE
    /\ exit_code' = <<CliExitCode(NoExc)>>
    /\ UNCHANGED exc

\* control moves on to statement l
Goto(l) == pc' = l /\ UNCHANGED <<exc, returned, exit_code>>

(***************************************************************************)
(* run_deployment_cli up to the call of the operation (cli.py 106-118).    *)
(***************************************************************************)
\* the first statement of the function run_deployment_cli calls
EntryOf(o) ==
    CASE o = "deploy" -> "deploy_outputs"
      [] o = "destroy" -> "destroy_init"
      [] o = "fullnode_deploy" -> "fn_prelude"
      [] OTHER -> "vfn_outputs_1"

\* load_env_file(args.env_file), then destroy_fn or deploy_fn
CliLoadEnv ==
    /\ pc = "cli_load_env"
    /\ \E file \in EnvFiles :
        IF load_env_file(file) /= NoExc
        THEN Propagate(load_env_file(file))
        ELSE Goto(EntryOf(op))
    /\ UNCHANGED <<args, call, tf_state, locals, logs, existv, timev, eksv, podv, lbv>>

\* Ctrl-C while the operation runs: KeyboardInterrupt is raised in whatever
\* statement is executing, here outside destroy's try block, where no
\* handler below run_deployment_cli can catch it
Interrupt ==
    /\ pc \notin {"done", "destroy_kubeconfig", "destroy_uninstall"}
    /\ Propagate("KeyboardInterrupt")
    /\ UNCHANGED <<args, call, tf_state, locals, logs, existv, timev, eksv, podv, lbv>>

(***************************************************************************)
(* ClusterManager.deploy, stage 1: provisioning (cluster.py 65-96).        *)
(***************************************************************************)
\* `outputs.get("cluster_name") or terraform_vars.get("validator_name", "demo") + "-cluster"`
DerivedName(outs, tfvars) ==
    Or(Get(outs, "cluster_name", None),
       ClusterSuffix(Get(tfvars, "validator_name", "demo")))

\* `outputs.get("region") or terraform_vars.get("region", "us-east-1")`
DerivedRegion(outs, tfvars) ==
    Or(Get(outs, "region", None), Get(tfvars, "region", "us-east-1"))

\* the value is a str (None, bools, ints and lists are not)
IsStr(v) == v \notin {None, PyTrue, PyFalse, PyOne, PyList}

\* the `+ "-cluster"` of DerivedName is evaluated when the outputs give no
\* name, and raises TypeError unless its left operand is a str
DerivedNameRaises(outs, tfvars) ==
    /\ ~Truthy(Get(outs, "cluster_name", None))
    /\ ~IsStr(Get(tfvars, "validator_name", "demo"))

\* cluster.py 71-74 and 101-102: the name and region deploy works with,
\* from the outputs queried first (pre), the outputs in effect after the
\* provisioning stage (post) and terraform_vars: [exc, name, region]
ResolveNames(pre, post, tfvars) ==
    IF DerivedNameRaises(pre, tfvars)
    THEN [exc |-> "TypeError", name |-> None, region |-> None]
    ELSE [exc |-> NoExc,
          name |-> Get(post, "cluster_name", DerivedName(pre, tfvars)),
          region |-> Get(post, "region", DerivedRegion(pre, tfvars))]

DeployGetOutputs ==
    /\ pc = "deploy_outputs"
    /\ \E proc \in OutputResults :
        LET r == get_outputs(proc) IN
        /\ cmds' = Append(cmds, Ran("terraform output", proc))
        /\ IF r.exc /= NoExc
           THEN Propagate(r.exc) /\ UNCHANGED <<outputs, cluster_name, region>>
           ELSE IF DerivedNameRaises(r.val, terraform_vars)
           THEN /\ outputs' = r.val
                /\ Propagate("TypeError")
                /\ UNCHANGED <<cluster_name, region>>
           ELSE /\ outputs' = r.val
                /\ cluster_name' = DerivedName(r.val, terraform_vars)
                /\ region' = DerivedRegion(r.val, terraform_vars)
                /\ Goto("deploy_exists")
    /\ UNCHANGED <<args, call, tf_state, var_args, warned, existv, timev, eksv, podv, lbv>>

\* SkipProvisioning with the test of the existence inverted
SkipProvisioningInverted(skip, ret) == skip /\ ~ret

\* SkipProvisioning without the call of cluster_exists
SkipProvisioningAlways(skip, ret) == skip

\* `if skip_if_exists and eks.cluster_exists():` the call is made only when
\* skip_if_exists is set
SkipProvisioning(skip, ret) == skip /\ ret

\* DeployClusterExists with skip_if_exists taken to be set
DeployClusterExistsIgnoresForce ==
    /\ pc = "deploy_exists"
    /\ IF FALSE
       THEN Goto("tf_init") /\ UNCHANGED <<cmds, existv>>
       ELSE \E proc \in DescribeResults :
            LET r == cluster_exists(proc) IN
            /\ cmds' = Append(cmds, Ran("aws eks describe-cluster", proc))
            /\ describe' = proc
            /\ IF r.exc /= NoExc
               THEN Propagate(r.exc) /\ exists' = "raised"
               ELSE /\ exists' = IF r.ret THEN "yes" ELSE "no"
                    /\ IF SkipProvisioning(TRUE, r.ret)
                       THEN Goto("deploy_refresh")
                       ELSE Goto("tf_init")
    /\ UNCHANGED <<args, call, tf_state, locals, warned, timev, eksv, podv, lbv>>

\* cluster.py 77-78
DeployClusterExists ==
    /\ pc = "deploy_exists"
    /\ IF ~skip_if_exists
       THEN Goto("tf_init") /\ UNCHANGED <<cmds, existv>>
       ELSE \E proc \in DescribeResults :
            LET r == cluster_exists(proc) IN
            /\ cmds' = Append(cmds, Ran("aws eks describe-cluster", proc))
            /\ describe' = proc
            /\ IF r.exc /= NoExc
               THEN Propagate(r.exc) /\ exists' = "raised"
               ELSE /\ exists' = IF r.ret THEN "yes" ELSE "no"
                    /\ IF SkipProvisioning(skip_if_exists, r.ret)
                       THEN Goto("deploy_refresh")
                       ELSE Goto("tf_init")
    /\ UNCHANGED <<args, call, tf_state, locals, warned, timev, eksv, podv, lbv>>

\* TerraformManager.init(upgrade=True) / validate(): run_command with check
TfInit ==
    /\ pc = "tf_init"
    /\ \E proc \in ProcResults :
        /\ cmds' = Append(cmds, Ran("terraform init -upgrade", proc))
        /\ IF run_command(proc, TRUE) /= NoExc
           THEN Propagate(run_command(proc, TRUE))
           ELSE Goto("tf_validate")
    /\ UNCHANGED <<args, call, tf_state, locals, warned, existv, timev, eksv, podv, lbv>>

TfValidate ==
    /\ pc = "tf_validate"
    /\ \E proc \in ProcResults :
        /\ cmds' = Append(cmds, Ran("terraform validate", proc))
        /\ IF run_command(proc, TRUE) /= NoExc
           THEN Propagate(run_command(proc, TRUE))
           ELSE Goto("tf_apply")
    /\ UNCHANGED <<args, call, tf_state, locals, warned, existv, timev, eksv, podv, lbv>>

TfApply ==
    /\ pc = "tf_apply"
    /\ var_args' = build_var_args(terraform_vars)
    /\ \E proc \in ProcResults :
        /\ cmds' = Append(cmds, Ran("terraform apply", proc))
        /\ IF run_command(proc, TRUE) /= NoExc
           THEN Propagate(run_command(proc, TRUE))
           ELSE Goto("tf_outputs")
    /\ UNCHANGED <<args, call, tf_state, outputs, cluster_name, region, warned, existv, timev,
                   eksv, podv, lbv>>

\* NoOutputsAfterApply with the check left out
NoOutputsAfterApplyUnchecked(outs) == FALSE

\* `if not outputs: raise RuntimeError(...)` after the apply
NoOutputsAfterApply(outs) == ~NonEmpty(outs)

TfOutputs ==
    /\ pc = "tf_outputs"
    /\ \E proc \in OutputResults :
        LET r == get_outputs(proc) IN
        /\ cmds' = Append(cmds, Ran("terraform output", proc))
        /\ IF r.exc /= NoExc
           THEN Propagate(r.exc) /\ UNCHANGED outputs
           ELSE /\ outputs' = r.val
                /\ IF NoOutputsAfterApply(r.val)
                   THEN Propagate("RuntimeError")
                   ELSE Goto("deploy_refresh")
    /\ UNCHANGED <<args, call, tf_state, cluster_name, region, var_args, warned, existv, timev,
                   eksv, podv, lbv>>

\* `if not outputs: outputs = get_outputs()`, then the final name and region:
\* outputs.get("cluster_name", cluster_name), outputs.get("region", region)
DeployRefresh ==
    /\ pc = "deploy_refresh"
    /\ IF NonEmpty(outputs)
       THEN /\ cluster_name' = Get(outputs, "cluster_name", cluster_name)
            /\ region' = Get(outputs, "region", region)
            /\ Goto("wait_start")
            /\ UNCHANGED <<outputs, cmds>>
       ELSE \E proc \in OutputResults :
            LET r == get_outputs(proc) IN
            /\ cmds' = Append(cmds, Ran("terraform output", proc))
            /\ IF r.exc /= NoExc
               THEN Propagate(r.exc) /\ UNCHANGED <<outputs, cluster_name, region>>
               ELSE /\ outputs' = r.val
                    /\ cluster_name' = Get(r.val, "cluster_name", cluster_name)
                    /\ region' = Get(r.val, "region", region)
                    /\ Goto("wait_start")
    /\ UNCHANGED <<args, call, tf_state, var_args, warned, existv, timev, eksv, podv, lbv>>

(***************************************************************************)
(* EKSManager.wait_until_active (eks.py 78-105).  deploy calls it with the *)
(* default timeout and interval; the model draws both, in clock ticks.     *)
(***************************************************************************)
WaitStart ==
    /\ pc = "wait_start"
    /\ \E t \in Timeouts, i \in Intervals :
        /\ clock' = 0
        /\ deadline' = t
        /\ interval' = i
    /\ eksState' = "polling"
    /\ Goto("wait_test")
    /\ UNCHANGED <<args, call, tf_state, locals, logs, existv, status, eksPolls, eksSleeps, podv, lbv>>

\* `while time.time() < deadline:` and the fail() after the loop
WaitTest ==
    /\ pc = "wait_test"
    /\ IF clock < deadline
       THEN Goto("wait_poll") /\ UNCHANGED eksState
       ELSE Propagate(fail) /\ eksState' = "timeout"
    /\ UNCHANGED <<args, call, tf_state, locals, logs, existv, timev, status, eksPolls, eksSleeps,
                   podv, lbv>>

\* the loop body up to the sleep
WaitPoll ==
    /\ pc = "wait_poll"
    /\ \E proc \in StatusResults, d \in CallTimes :
        LET r == get_cluster_status(proc) IN
        /\ clock' = clock + d
        /\ eksPolls' = eksPolls + 1
        /\ IF r.exc /= NoExc
           THEN Propagate(r.exc) /\ UNCHANGED <<status, eksState>>
           ELSE /\ status' = r.ret
                /\ CASE WaitVerdict(r.ret) = "success" ->
                            eksState' = "success" /\ Goto("wait_return")
                     [] WaitVerdict(r.ret) = "fatal" ->
                            eksState' = "fatal" /\ Propagate(fail)
                     [] OTHER ->
                            UNCHANGED eksState /\ Goto("wait_sleep")
    /\ UNCHANGED <<args, call, tf_state, locals, logs, existv, deadline, interval, eksSleeps, podv, lbv>>

\* WaitSleep without the time.sleep(interval)
WaitSleepSkipped ==
    /\ pc = "wait_sleep"
    /\ Goto("wait_test")
    /\ UNCHANGED <<args, call, tf_state, locals, logs, existv, timev, eksv, podv, lbv>>

\* time.sleep(interval)
WaitSleep ==
    /\ pc = "wait_sleep"
    /\ clock' = clock + interval
    /\ eksSleeps' = eksSleeps + 1
    /\ Goto("wait_test")
    /\ UNCHANGED <<args, call, tf_state, locals, logs, existv, deadline, interval, status, eksPolls,
                   eksState, podv, lbv>>

\* `return` of wait_until_active: its locals go out of scope
WaitReturn ==
    /\ pc = "wait_return"
    /\ clock' = 0
    /\ deadline' = 0
    /\ interval' = 1
    /\ status' = None
    /\ eksPolls' = 0
    /\ eksSleeps' = 0
    /\ Goto("kubeconfig")
    /\ UNCHANGED <<args, call, tf_state, locals, logs, existv, eksState, podv, lbv>>

(***************************************************************************)
(* EKSManager.update_kubeconfig (eks.py 107-125), called by deploy and,    *)
(* inside the try block, by destroy; HelmManager (helm.py).                *)
(***************************************************************************)
\* Caught with a bare `except:` in place of `except Exception`
CaughtByBareExcept(e) == TRUE

\* destroy's `except Exception as e: warn(...)` around update_kubeconfig and
\* helm.uninstall: does the handler catch e?
Caught(e) == IsException(e)

\* an exception raised inside destroy's try block
RaiseInTry(e) ==
    IF Caught(e)
    THEN warned' = TRUE /\ Goto("destroy_tf")
    ELSE UNCHANGED warned /\ Propagate(e)

\* Ctrl-C while update_kubeconfig or helm.uninstall runs inside destroy's
\* try block, before the command is issued
InterruptInTry ==
    /\ pc \in {"destroy_kubeconfig", "destroy_uninstall"}
    /\ RaiseInTry("KeyboardInterrupt")
    /\ UNCHANGED <<args, call, tf_state, locals, cmds, existv, timev, eksv, podv, lbv>>

\* UpdateKubeconfig with run_command(cmd, check=False)
UpdateKubeconfigUnchecked ==
    /\ pc \in {"kubeconfig", "destroy_kubeconfig"}
    /\ \E proc \in ProcResults :
        /\ cmds' = Append(cmds, Ran("aws eks update-kubeconfig", proc))
        /\ IF run_command(proc, FALSE) /= NoExc
           THEN IF pc = "destroy_kubeconfig"
                THEN RaiseInTry(run_command(proc, FALSE))
                ELSE UNCHANGED warned /\ Propagate(run_command(proc, FALSE))
           ELSE /\ UNCHANGED warned
                /\ Goto(IF pc = "kubeconfig" THEN "helm_upgrade" ELSE "destroy_uninstall")
    /\ UNCHANGED <<args, call, tf_state, locals, existv, timev, eksv, podv, lbv>>

\* update_kubeconfig: run_command(cmd), check defaulting to True
UpdateKubeconfig ==
    /\ pc \in {"kubeconfig", "destroy_kubeconfig"}
    /\ \E proc \in ProcResults :
        /\ cmds' = Append(cmds, Ran("aws eks update-kubeconfig", proc))
        /\ IF run_command(proc, TRUE) /= NoExc
           THEN IF pc = "destroy_kubeconfig"
                THEN RaiseInTry(run_command(proc, TRUE))
                ELSE UNCHANGED warned /\ Propagate(run_command(proc, TRUE))
           ELSE /\ UNCHANGED warned
                /\ Goto(IF pc = "kubeconfig" THEN "helm_upgrade" ELSE "destroy_uninstall")
    /\ UNCHANGED <<args, call, tf_state, locals, existv, timev, eksv, podv, lbv>>

\* upgrade_install: run_command(cmd), check defaulting to True
HelmUpgrade ==
    /\ pc = "helm_upgrade"
    /\ \E proc \in ProcResults :
        /\ cmds' = Append(cmds, Ran("helm upgrade --install", proc))
        /\ IF run_command(proc, TRUE) /= NoExc
           THEN Propagate(run_command(proc, TRUE))
           ELSE Goto("validate_start")
    /\ UNCHANGED <<args, call, tf_state, locals, warned, existv, timev, eksv, podv, lbv>>

\* HelmUninstall with run_command's default check=True
HelmUninstallChecked ==
    /\ pc = "destroy_uninstall"
    /\ \E proc \in ProcResults :
        /\ cmds' = Append(cmds, Ran("helm uninstall", proc))
        /\ IF run_command(proc, TRUE) /= NoExc
           THEN RaiseInTry(run_command(proc, TRUE))
           ELSE UNCHANGED warned /\ Goto("destroy_tf")
    /\ UNCHANGED <<args, call, tf_state, locals, existv, timev, eksv, podv, lbv>>

\* uninstall: run_command(cmd, check=False), inside destroy's try block
HelmUninstall ==
    /\ pc = "destroy_uninstall"
    /\ \E proc \in ProcResults :
        /\ cmds' = Append(cmds, Ran("helm uninstall", proc))
        /\ IF run_command(proc, FALSE) /= NoExc
           THEN RaiseInTry(run_command(proc, FALSE))
           ELSE UNCHANGED warned /\ Goto("destroy_tf")
    /\ UNCHANGED <<args, call, tf_state, locals, existv, timev, eksv, podv, lbv>>

(***************************************************************************)
(* validate_deployment (validation.py 161-206) and wait_for_pod_ready      *)
(* (validation.py 38-91).  deploy reads POD_READY_TIMEOUT and              *)
(* RETRY_INTERVAL from env_vars (cluster.py 134-136).                      *)
(***************************************************************************)
ValidateStart ==
    /\ pc = "validate_start"
    /\ \E t \in Timeouts, i \in Intervals :
        /\ clock' = 0
        /\ deadline' = t
        /\ interval' = i
    /\ podState' = "polling"
    /\ Goto("pod_test")
    /\ UNCHANGED <<args, call, tf_state, locals, logs, existv, eksv, pods, podPolls, podSleeps, lbv>>

\* `while time.time() < deadline:` and the fail() after the loop
PodTest ==
    /\ pc = "pod_test"
    /\ IF clock < deadline
       THEN Goto("pod_poll") /\ UNCHANGED podState
       ELSE Propagate(fail) /\ podState' = "timeout"
    /\ UNCHANGED <<args, call, tf_state, locals, logs, existv, timev, eksv, pods, podPolls,
                   podSleeps, lbv>>

\* AfterPodReady without the `if validate_api:` test
AfterPodReadyAlwaysLb(validate_api) == "lb_start"

\* `if validate_api:` after wait_for_pod_ready returned
AfterPodReady(validate_api) == IF validate_api THEN "lb_start" ELSE "deploy_return"

\* list_namespaced_pod and the loop over the pods
PodPoll ==
    /\ pc = "pod_poll"
    /\ podPolls' = podPolls + 1
    /\ \E d \in CallTimes : clock' = clock + d
    /\ \/ /\ Propagate("ApiException")
          /\ UNCHANGED <<pods, podState>>
       \/ \E ps \in PodLists :
          /\ pods' = ps
          /\ CASE ScanPods(ps, 1) = "ready" ->
                      podState' = "ready" /\ Goto("pod_return")
               [] ScanPods(ps, 1) = "failed" ->
                      podState' = "failed" /\ Propagate(fail)
               [] OTHER ->
                      UNCHANGED podState /\ Goto("pod_sleep")
    /\ UNCHANGED <<args, call, tf_state, locals, logs, existv, deadline, interval, eksv, podSleeps, lbv>>

\* PodSleep after which the wait starts over: the deadline is taken anew
\* from the current time and the counts begin again
PodSleepStartsOver ==
    /\ pc = "pod_sleep"
    /\ clock' = 0
    /\ podSleeps' = 0
    /\ podPolls' = 0
    /\ Goto("pod_test")
    /\ UNCHANGED <<args, call, tf_state, locals, logs, existv, deadline, interval, eksv, pods,
                   podState, lbv>>

\* time.sleep(interval), after an empty list or a list with no verdict
PodSleep ==
    /\ pc = "pod_sleep"
    /\ clock' = clock + interval
    /\ podSleeps' = podSleeps + 1
    /\ Goto("pod_test")
    /\ UNCHANGED <<args, call, tf_state, locals, logs, existv, deadline, interval, eksv, pods,
                   podPolls, podState, lbv>>

\* `return` of wait_for_pod_ready: its locals go out of scope;
\* validate_deployment goes on (its `interval` stays)
PodReturn ==
    /\ pc = "pod_return"
    /\ clock' = 0
    /\ deadline' = 0
    /\ pods' = <<>>
    /\ podPolls' = 0
    /\ podSleeps' = 0
    /\ Goto(AfterPodReady(validate))
    /\ UNCHANGED <<args, call, tf_state, locals, logs, existv, interval, eksv, podState, lbv>>

(***************************************************************************)
(* wait_for_loadbalancer_and_api (validation.py 94-158); deploy reads      *)
(* MAX_RETRIES from env_vars (cluster.py 135).                             *)
(***************************************************************************)
LbStart ==
    /\ pc = "lb_start"
    /\ \E n \in RetryBudgets : retries' = n
    /\ attempt' = 1
    /\ lbState' = "polling"
    /\ Goto("lb_test")
    /\ UNCHANGED <<args, call, tf_state, locals, logs, existv, timev, eksv, podv, host, http,
                   lbReads, httpGets, lbSleeps>>

\* WithinBudget with one attempt more than the budget
WithinBudgetPlusOne(a, n) == a <= n + 1

\* a is a value of range(1, n + 1)
WithinBudget(a, n) == a <= n

\* `for attempt in range(1, retries + 1):` and the fail() after the loop
LbTest ==
    /\ pc = "lb_test"
    /\ IF WithinBudget(attempt, retries)
       THEN Goto("lb_read") /\ UNCHANGED lbState
       ELSE Propagate(fail) /\ lbState' = "timeout"
    /\ UNCHANGED <<args, call, tf_state, locals, logs, existv, timev, eksv, podv, retries, attempt,
                   host, http, lbReads, httpGets, lbSleeps>>

\* LbRead without the `except Exception` around read_namespaced_service
LbReadUncaught ==
    /\ pc = "lb_read"
    /\ lbReads' = lbReads + 1
    /\ \E svc \in ServiceResults :
        IF svc.exc /= NoExc
        THEN host' = "" /\ Propagate(svc.exc)
        ELSE /\ host' = HostOf(svc.ingress)
             /\ IF HostOf(svc.ingress) /= "" THEN Goto("lb_probe") ELSE Goto("lb_sleep")
    /\ UNCHANGED <<args, call, tf_state, locals, logs, existv, timev, eksv, podv, retries, attempt,
                   http, httpGets, lbSleeps, lbState>>

\* LbRead without the `if host:` test
LbReadAlwaysProbe ==
    /\ pc = "lb_read"
    /\ lbReads' = lbReads + 1
    /\ \E svc \in ServiceResults :
        IF svc.exc /= NoExc
        THEN host' = "" /\ Goto("lb_sleep")
        ELSE /\ host' = HostOf(svc.ingress)
             /\ Goto("lb_probe")
    /\ UNCHANGED <<args, call, tf_state, locals, logs, existv, timev, eksv, podv, retries, attempt,
                   http, httpGets, lbSleeps, lbState>>

\* read_namespaced_service and the extraction of the address
LbRead ==
    /\ pc = "lb_read"
    /\ lbReads' = lbReads + 1
    /\ \E svc \in ServiceResults :
        IF svc.exc /= NoExc
        THEN host' = "" /\ Goto("lb_sleep")
        ELSE /\ host' = HostOf(svc.ingress)
             /\ IF HostOf(svc.ingress) /= "" THEN Goto("lb_probe") ELSE Goto("lb_sleep")
    /\ UNCHANGED <<args, call, tf_state, locals, logs, existv, timev, eksv, podv, retries, attempt,
                   http, httpGets, lbSleeps, lbState>>

\* urlopen(url, timeout=10) and the check of the response
LbProbe ==
    /\ pc = "lb_probe"
    /\ httpGets' = httpGets + 1
    /\ \E h \in HttpResults :
        /\ http' = h
        /\ IF ProbeVerdict(h) = "healthy"
           THEN lbState' = "healthy" /\ Goto("deploy_return")
           ELSE UNCHANGED lbState /\ Goto("lb_sleep")
    /\ UNCHANGED <<args, call, tf_state, locals, logs, existv, timev, eksv, podv, retries, attempt,
                   host, lbReads, lbSleeps>>

\* time.sleep(interval) and the next value of the loop variable
LbSleep ==
    /\ pc = "lb_sleep"
    /\ clock' = clock + interval
    /\ lbSleeps' = lbSleeps + 1
    /\ attempt' = attempt + 1
    /\ Goto("lb_test")
    /\ UNCHANGED <<args, call, tf_state, locals, logs, existv, deadline, interval, eksv, podv,
                   retries, host, http, lbReads, httpGets, lbState>>

\* deploy returns the result payload (cluster.py 147-156)
DeployReturn ==
    /\ pc = "deploy_return"
    /\ Return
    /\ UNCHANGED <<args, call, tf_state, locals, logs, existv, timev, eksv, podv, lbv>>

(***************************************************************************)
(* ClusterManager.destroy (cluster.py 158-194).                            *)
(***************************************************************************)
\* DestroyInit with run_command(cmd, check=False)
DestroyInitUnchecked ==
    /\ pc = "destroy_init"
    /\ \E proc \in ProcResults :
        /\ cmds' = Append(cmds, Ran("terraform init", proc))
        /\ IF run_command(proc, FALSE) /= NoExc
           THEN Propagate(run_command(proc, FALSE))
           ELSE Goto("destroy_outputs")
    /\ UNCHANGED <<args, call, tf_state, locals, warned, existv, timev, eksv, podv, lbv>>

\* self.terraform.init(upgrade=False)
DestroyInit ==
    /\ pc = "destroy_init"
    /\ \E proc \in ProcResults :
        /\ cmds' = Append(cmds, Ran("terraform init", proc))
        /\ IF run_command(proc, TRUE) /= NoExc
           THEN Propagate(run_command(proc, TRUE))
           ELSE Goto("destroy_outputs")
    /\ UNCHANGED <<args, call, tf_state, locals, warned, existv, timev, eksv, podv, lbv>>

\* UninstallTarget without `if cluster_name and region:`
UninstallTargetAnyOutputs(outs) == NonEmpty(outs)

\* `if outputs:` ... `if cluster_name and region:`
UninstallTarget(outs) ==
    /\ NonEmpty(outs)
    /\ Truthy(Get(outs, "cluster_name", None))
    /\ Truthy(Get(outs, "region", None))

\* DestroyOutputs without the update_kubeconfig() of the try block
DestroyOutputsNoRefresh ==
    /\ pc = "destroy_outputs"
    /\ \E proc \in OutputResults :
        LET r == get_outputs(proc) IN
        /\ cmds' = Append(cmds, Ran("terraform output", proc))
        /\ IF r.exc /= NoExc
           THEN Propagate(r.exc) /\ UNCHANGED <<outputs, cluster_name, region>>
           ELSE /\ outputs' = r.val
                /\ IF NonEmpty(r.val)
                   THEN /\ cluster_name' = Get(r.val, "cluster_name", None)
                        /\ region' = Get(r.val, "region", None)
                   ELSE UNCHANGED <<cluster_name, region>>
                /\ IF UninstallTarget(r.val)
                   THEN Goto("destroy_uninstall")
                   ELSE Goto("destroy_tf")
    /\ UNCHANGED <<args, call, tf_state, var_args, warned, existv, timev, eksv, podv, lbv>>

\* get_outputs() and the choice of the uninstall (cluster.py 170-178)
DestroyOutputs ==
    /\ pc = "destroy_outputs"
    /\ \E proc \in OutputResults :
        LET r == get_outputs(proc) IN
        /\ cmds' = Append(cmds, Ran("terraform output", proc))
        /\ IF r.exc /= NoExc
           THEN Propagate(r.exc) /\ UNCHANGED <<outputs, cluster_name, region>>
           ELSE /\ outputs' = r.val
                /\ IF NonEmpty(r.val)
                   THEN /\ cluster_name' = Get(r.val, "cluster_name", None)
                        /\ region' = Get(r.val, "region", None)
                   ELSE UNCHANGED <<cluster_name, region>>
                /\ IF UninstallTarget(r.val)
                   THEN Goto("destroy_kubeconfig")
                   ELSE Goto("destroy_tf")
    /\ UNCHANGED <<args, call, tf_state, var_args, warned, existv, timev, eksv, podv, lbv>>

\* build_var_args(terraform_vars); terraform.destroy(var_args, auto_approve)
TfDestroy ==
    /\ pc = "destroy_tf"
    /\ var_args' = build_var_args(terraform_vars)
    /\ \E proc \in ProcResults :
        /\ cmds' = Append(cmds, Ran("terraform destroy", proc))
        /\ IF run_command(proc, TRUE) /= NoExc
           THEN Propagate(run_command(proc, TRUE))
           ELSE Return
    /\ UNCHANGED <<args, call, tf_state, outputs, cluster_name, region, warned, existv, timev,
                   eksv, podv, lbv>>

Next ==
    \/ CliLoadEnv
    \/ Interrupt
    \/ InterruptInTry
    \/ DeployGetOutputs
    \/ DeployClusterExists
    \/ TfInit
    \/ TfValidate
    \/ TfApply
    \/ TfOutputs
    \/ DeployRefresh
    \/ WaitStart
    \/ WaitTest
    \/ WaitPoll
    \/ WaitSleep
    \/ WaitReturn
    \/ UpdateKubeconfig
    \/ HelmUpgrade
    \/ HelmUninstall
    \/ ValidateStart
    \/ PodTest
    \/ PodPoll
    \/ PodSleep
    \/ PodReturn
    \/ LbStart
    \/ LbTest
    \/ LbRead
    \/ LbProbe
    \/ LbSleep
    \/ DeployReturn
    \/ DestroyInit
    \/ DestroyOutputs
    \/ TfDestroy

Spec == Init /\ [][Next]_vars

(***************************************************************************)
(* Single calls: get_outputs and build_var_args (terraform.py) applied to  *)
(* one input, and the binding of deploy's `validate` parameter             *)
(* (cluster.py 38-45) up to its use at cluster.py 133-145.                 *)
(***************************************************************************)
VarKeys == {"validator_name", "enable_dns"}
VarValues == {None, PyTrue, PyFalse, PyOne, PyList, "val", ""}

\* the variable mappings build_var_args is applied to
VarMaps == UNION {[ks -> VarValues] : ks \in SUBSET VarKeys}

\* how a caller of deploy passes `validate`: not at all, True or False
Omitted == "<omitted>"
ValidateArgs == {Omitted, "True", "False"}

\* BindValidate with the parameter defaulting to True
BindValidateDefaultTrue(arg) == IF arg = Omitted THEN TRUE ELSE arg = "True"

\* `validate: bool = False` in deploy's signature: the value of the parameter
BindValidate(arg) == IF arg = Omitted THEN FALSE ELSE arg = "True"

Call(fn, in) == [fn |-> fn, in |-> in, out |-> <<>>]

\* the mappings get_outputs can return
OutputMaps == {get_outputs(proc).val : proc \in OutputResults}

\* terraform_vars with and without a validator_name (null or not) and a region
NameVars ==
    TerraformVarsSet
    \cup {m \in VarMaps : DOMAIN m \subseteq {"validator_name"}}

Calls ==
    {Call("get_outputs", proc) : proc \in OutputResults}
    \cup {Call("build_var_args", m) : m \in VarMaps}
    \cup {Call("deploy", a) : a \in ValidateArgs}
    \cup {Call("run_command", [proc |-> q, check |-> c]) :
              q \in DescribeResults, c \in BOOLEAN}
    \cup {Call("resolve_names", [pre |-> a, post |-> b, vars |-> m]) :
              a \in OutputMaps, b \in OutputMaps, m \in NameVars}

InitCalls ==
    /\ call \in Calls
    /\ op = "none"
    /\ skip_if_exists = FALSE
    /\ validate = FALSE
    /\ terraform_vars = EmptyMap
    /\ pc = "done"
    /\ Fresh
    /\ helm_config = NoHelmConfig
    /\ tf_state = EmptyMap

CallGetOutputs ==
    /\ call.fn = "get_outputs"
    /\ call.out = <<>>
    /\ call' = [call EXCEPT !.out = <<get_outputs(call.in)>>]
    /\ UNCHANGED <<args, tf_state, ctl, locals, logs, existv, timev, eksv, podv, lbv>>

CallBuildVarArgs ==
    /\ call.fn = "build_var_args"
    /\ call.out = <<>>
    /\ call' = [call EXCEPT !.out = <<build_var_args(call.in)>>]
    /\ UNCHANGED <<args, tf_state, ctl, locals, logs, existv, timev, eksv, podv, lbv>>

\* deploy(...) with `validate` passed as call.in: the validate_api that
\* validate_deployment receives and the stage that follows pod readiness
CallDeploy ==
    /\ call.fn = "deploy"
    /\ call.out = <<>>
    /\ call' = [call EXCEPT !.out =
                    <<[validate_api |-> BindValidate(call.in),
                       after_pods |-> AfterPodReady(BindValidate(call.in))]>>]
    /\ UNCHANGED <<args, tf_state, ctl, locals, logs, existv, timev, eksv, podv, lbv>>

\* run_command(cmd, check=...) on a process that ends as call.in.proc
CallRunCommand ==
    /\ call.fn = "run_command"
    /\ call.out = <<>>
    /\ call' = [call EXCEPT !.out = <<run_command(call.in.proc, call.in.check)>>]
    /\ UNCHANGED <<args, tf_state, ctl, locals, logs, existv, timev, eksv, podv, lbv>>

\* deploy's resolution of the cluster name and region
CallResolveNames ==
    /\ call.fn = "resolve_names"
    /\ call.out = <<>>
    /\ call' = [call EXCEPT !.out =
                    <<ResolveNames(call.in.pre, call.in.post, call.in.vars)>>]
    /\ UNCHANGED <<args, tf_state, ctl, locals, logs, existv, timev, eksv, podv, lbv>>

NextCalls ==
    \/ CallRunCommand
    \/ CallResolveNames
    \/ CallGetOutputs
    \/ CallBuildVarArgs
    \/ CallDeploy

SpecCalls == InitCalls /\ [][NextCalls]_vars

(***************************************************************************)
(* examples/validator-vfn/deploy.py: deploy(env_vars, force_create,        *)
(* validate), run through run_deployment_cli.  op is "vfn_deploy",         *)
(* skip_if_exists is `not force_create`.  The topology flags only select   *)
(* log lines in the statements modelled here.  The call at line 279 raises *)
(* in every execution, so no statement after it is ever reached.           *)
(***************************************************************************)
\* positional parameters of EKSManager.__init__ besides self (eks.py 14) and
\* positional arguments of the call EKSManager(cluster_name, region, profile)
EKSManagerParams == 2
VfnEksArgs == 3

\* calling a function with nargs positional arguments for nparams parameters
CallArity(nargs, nparams) == IF nargs > nparams THEN "TypeError" ELSE NoExc

\* outputs.get("cluster_name", f"{env_vars.get('VALIDATOR_NAME', 'validator')}-cluster")
VfnClusterName(outs, tfvars) ==
    Get(outs, "cluster_name",
        IF "validator_name" \in DOMAIN tfvars
        THEN ClusterSuffix(tfvars["validator_name"])
        ELSE "validator-cluster")

InitVfn ==
    /\ op = "vfn_deploy"
    /\ skip_if_exists \in BOOLEAN
    /\ validate \in BOOLEAN
    /\ terraform_vars \in {m \in TerraformVarsSet : "validator_name" \in DOMAIN m}
    /\ pc = "cli_load_env"
    /\ Fresh
    /\ call = NoCall
    /\ helm_config = NoHelmConfig
    /\ tf_state = EmptyMap

\* `outputs = cluster.terraform.get_outputs() or {}`, at line 237 and again
\* at line 259, then `if not force_create and outputs:`
VfnGetOutputs ==
    /\ pc \in {"vfn_outputs_1", "vfn_outputs_2"}
    /\ \E proc \in OutputResults :
        LET r == get_outputs(proc) IN
        /\ cmds' = Append(cmds, Ran("terraform output", proc))
        /\ IF r.exc /= NoExc
           THEN Propagate(r.exc) /\ UNCHANGED outputs
           ELSE /\ outputs' = r.val
                /\ IF pc = "vfn_outputs_1" THEN Goto("vfn_outputs_2")
                   ELSE IF skip_if_exists /\ NonEmpty(r.val) THEN Goto("vfn_eks")
                   ELSE Goto("vfn_init")
    /\ UNCHANGED <<args, call, tf_state, cluster_name, region, var_args, warned, existv,
                   timev, eksv, podv, lbv>>

VfnInit ==
    /\ pc = "vfn_init"
    /\ \E proc \in ProcResults :
        /\ cmds' = Append(cmds, Ran("terraform init -upgrade", proc))
        /\ IF run_command(proc, TRUE) /= NoExc
           THEN Propagate(run_command(proc, TRUE))
           ELSE Goto("vfn_validate")
    /\ UNCHANGED <<args, call, tf_state, locals, warned, existv, timev, eksv, podv, lbv>>

VfnValidate ==
    /\ pc = "vfn_validate"
    /\ \E proc \in ProcResults :
        /\ cmds' = Append(cmds, Ran("terraform validate", proc))
        /\ IF run_command(proc, TRUE) /= NoExc
           THEN Propagate(run_command(proc, TRUE))
           ELSE Goto("vfn_apply")
    /\ UNCHANGED <<args, call, tf_state, locals, warned, existv, timev, eksv, podv, lbv>>

VfnApply ==
    /\ pc = "vfn_apply"
    /\ var_args' = build_var_args(terraform_vars)
    /\ \E proc \in ProcResults :
        /\ cmds' = Append(cmds, Ran("terraform apply", proc))
        /\ IF run_command(proc, TRUE) /= NoExc
           THEN Propagate(run_command(proc, TRUE))
           ELSE Goto("vfn_tf_outputs")
    /\ UNCHANGED <<args, call, tf_state, outputs, cluster_name, region, warned, existv,
                   timev, eksv, podv, lbv>>

\* `outputs = cluster.terraform.get_outputs()` after the apply (no test of
\* the result)
VfnTfOutputs ==
    /\ pc = "vfn_tf_outputs"
    /\ \E proc \in OutputResults :
        LET r == get_outputs(proc) IN
        /\ cmds' = Append(cmds, Ran("terraform output", proc))
        /\ IF r.exc /= NoExc
           THEN Propagate(r.exc) /\ UNCHANGED outputs
           ELSE outputs' = r.val /\ Goto("vfn_eks")
    /\ UNCHANGED <<args, call, tf_state, cluster_name, region, var_args, warned, existv,
                   timev, eksv, podv, lbv>>

\* cluster_name, region, then `eks = EKSManager(cluster_name, region, profile)`
VfnEksManager ==
    /\ pc = "vfn_eks"
    /\ cluster_name' = VfnClusterName(outputs, terraform_vars)
    /\ region' = Get(outputs, "region", Get(terraform_vars, "region", "us-east-1"))
    /\ IF CallArity(VfnEksArgs, EKSManagerParams) /= NoExc
       THEN Propagate(CallArity(VfnEksArgs, EKSManagerParams))
       ELSE Goto("vfn_wait")
    /\ UNCHANGED <<args, call, tf_state, outputs, var_args, logs, existv, timev, eksv, podv, lbv>>

\* DEPLOY_VFN, DEPLOY_FULLNODE and VALIDATOR_PUBLIC as read from env_vars
Topologies == [deploy_vfn : BOOLEAN, deploy_fullnode : BOOLEAN, validator_public : BOOLEAN]

\* step 2 of deploy (deploy.py 299-340): the deploy_node calls in their
\* order, each with its service_type
InstallPlan(t) ==
    <<[node |-> "validator",
       service_type |-> IF t.validator_public THEN "LoadBalancer" ELSE "ClusterIP"]>>
    \o (IF t.deploy_vfn
        THEN <<[node |-> "vfn",
                service_type |-> IF t.deploy_fullnode THEN "ClusterIP" ELSE "LoadBalancer"]>>
        ELSE <<>>)
    \o (IF t.deploy_fullnode
        THEN <<[node |-> "fullnode", service_type |-> "LoadBalancer"]>>
        ELSE <<>>)

NextVfn ==
    \/ CliLoadEnv
    \/ Interrupt
    \/ VfnGetOutputs
    \/ VfnInit
    \/ VfnValidate
    \/ VfnApply
    \/ VfnTfOutputs
    \/ VfnEksManager

SpecVfn == InitVfn /\ [][NextVfn]_vars

(***************************************************************************)
(* examples/public-fullnode/deploy.py: deploy(env_vars, force_create,      *)
(* validate) builds helm_config from the outputs it queries itself and     *)
(* hands it to ClusterManager.deploy.  op is "fullnode_deploy"; tf_state   *)
(* is what `terraform output` reports (empty before the first apply) and   *)
(* changes only by an apply.  The cluster wait and the credential refresh  *)
(* are one step here, and the run is followed up to the Helm command.      *)
(***************************************************************************)
\* the bootstrap S3 URIs of the outputs
S3Uris == {"s3://bkt/snap/v1", "s3://bkt", "other/snap"}

\* `if s3_uri.startswith("s3://"): s3_uri = s3_uri[5:]`, then
\* `parts = s3_uri.split("/", 1)`: parts[0]
S3Bucket(uri) ==
    CASE uri = "s3://bkt/snap/v1" -> "bkt"
      [] uri = "s3://bkt" -> "bkt"
      [] uri = "other/snap" -> "other"
      [] OTHER -> uri

\* `parts[1] if len(parts) > 1 else ""`
S3Prefix(uri) ==
    CASE uri = "s3://bkt/snap/v1" -> "snap/v1"
      [] uri = "s3://bkt" -> ""
      [] uri = "other/snap" -> "snap"
      [] OTHER -> ""

\* outputs of a configuration with bootstrap: the flag, the URI, the region
Bootstrap(flag, uri, reg) ==
    [k \in {"cluster_name", "region", "fullnode_bootstrap_enabled",
            "fullnode_bootstrap_s3_uri", "fullnode_bootstrap_region"} |->
        CASE k = "cluster_name" -> "out-cluster"
          [] k = "region" -> "out-region"
          [] k = "fullnode_bootstrap_enabled" -> flag
          [] k = "fullnode_bootstrap_s3_uri" -> uri
          [] OTHER -> reg]

\* the outputs an applied configuration may have
AppliedStates ==
    {[k \in {"cluster_name", "region"} |->
        IF k = "cluster_name" THEN "out-cluster" ELSE "out-region"],
     [k \in {"cluster_name", "region", "fullnode_bootstrap_enabled"} |->
        CASE k = "cluster_name" -> "out-cluster"
          [] k = "region" -> "out-region"
          [] OTHER -> PyFalse]}
    \cup {Bootstrap(PyTrue, u, "us-west-2") : u \in S3Uris}
    \cup {Bootstrap(PyFalse, "s3://bkt", "us-west-2")}

\* what `terraform output -json` prints for a state
FnProc(st) ==
    IF st = EmptyMap
    THEN [spawned |-> TRUE, rc |-> 1, stdout |-> [json |-> "blank", obj |-> EmptyMap]]
    ELSE [spawned |-> TRUE, rc |-> 0,
          stdout |-> [json |-> "object", obj |-> [k \in DOMAIN st |-> Wrapped(st[k])]]]

\* truth value of `outputs.get(key)` for a flag that is a bool when present
Signals(outs, key) == Get(outs, key, None) \notin {None, "", PyFalse}

\* the bootstrap part of set_values when bootstrap is off
BootstrapOff == [enabled |-> "false", bucket |-> None, prefix |-> None, region |-> None]

\* build_helm_config: [exc, val]; val is the bootstrap part of set_values
build_helm_config(config_exists, outs) ==
    IF ~config_exists THEN [exc |-> "RuntimeError", val |-> BootstrapOff]
    ELSE IF ~Signals(outs, "fullnode_bootstrap_enabled")
    THEN [exc |-> NoExc, val |-> BootstrapOff]
    ELSE IF \/ "fullnode_bootstrap_s3_uri" \notin DOMAIN outs
            \/ "fullnode_bootstrap_region" \notin DOMAIN outs
    THEN [exc |-> "KeyError", val |-> BootstrapOff]
    ELSE [exc |-> NoExc,
          val |-> [enabled |-> "true",
                   bucket |-> S3Bucket(outs["fullnode_bootstrap_s3_uri"]),
                   prefix |-> S3Prefix(outs["fullnode_bootstrap_s3_uri"]),
                   region |-> outs["fullnode_bootstrap_region"]]]

InitFullnode ==
    /\ op = "fullnode_deploy"
    /\ skip_if_exists \in BOOLEAN
    /\ validate \in BOOLEAN
    /\ terraform_vars \in {m \in TerraformVarsSet : "validator_name" \in DOMAIN m}
    /\ pc = "cli_load_env"
    /\ Fresh
    /\ call = NoCall
    /\ helm_config = NoHelmConfig
    /\ tf_state \in {EmptyMap} \cup AppliedStates

\* deploy.py 127-129: get_outputs() or {}, build_helm_config(env_vars, outputs)
FnPrelude ==
    /\ pc = "fn_prelude"
    /\ cmds' = Append(cmds, Ran("terraform output", FnProc(tf_state)))
    /\ \E config_exists \in BOOLEAN :
        LET r == build_helm_config(config_exists, get_outputs(FnProc(tf_state)).val) IN
        IF r.exc /= NoExc
        THEN Propagate(r.exc) /\ UNCHANGED helm_config
        ELSE helm_config' = r.val /\ Goto("fn_outputs")
    /\ UNCHANGED <<op, skip_if_exists, validate, terraform_vars, call, tf_state,
                   locals, warned, existv, timev, eksv, podv, lbv>>

\* cluster.py 68-74
FnDeployOutputs ==
    /\ pc = "fn_outputs"
    /\ cmds' = Append(cmds, Ran("terraform output", FnProc(tf_state)))
    /\ outputs' = get_outputs(FnProc(tf_state)).val
    /\ cluster_name' = DerivedName(outputs', terraform_vars)
    /\ region' = DerivedRegion(outputs', terraform_vars)
    /\ Goto("fn_exists")
    /\ UNCHANGED <<args, call, tf_state, var_args, warned, existv, timev, eksv,
                   podv, lbv>>

\* cluster.py 78: the cluster is there or is not found
FnClusterExists ==
    /\ pc = "fn_exists"
    /\ IF ~skip_if_exists
       THEN Goto("fn_init") /\ UNCHANGED <<cmds, existv>>
       ELSE \E proc \in {ProcOk, ProcFail(NotFoundErr)} :
            /\ cmds' = Append(cmds, Ran("aws eks describe-cluster", proc))
            /\ describe' = proc
            /\ exists' = IF cluster_exists(proc).ret THEN "yes" ELSE "no"
            /\ IF SkipProvisioning(skip_if_exists, cluster_exists(proc).ret)
               THEN Goto("fn_refresh")
               ELSE Goto("fn_init")
    /\ UNCHANGED <<args, call, tf_state, locals, warned, timev, eksv, podv, lbv>>

\* cluster.py 82-83: init(upgrade=True), validate()
FnInitValidate ==
    /\ pc \in {"fn_init", "fn_validate"}
    /\ \E proc \in ProcResults :
        /\ cmds' = Append(cmds,
                Ran(IF pc = "fn_init" THEN "terraform init -upgrade"
                    ELSE "terraform validate", proc))
        /\ IF run_command(proc, TRUE) /= NoExc
           THEN Propagate(run_command(proc, TRUE))
           ELSE Goto(IF pc = "fn_init" THEN "fn_validate" ELSE "fn_apply")
    /\ UNCHANGED <<args, call, tf_state, locals, warned, existv, timev, eksv,
                   podv, lbv>>

\* cluster.py 85-86: a successful apply leaves the outputs of the
\* configuration in the state
FnApply ==
    /\ pc = "fn_apply"
    /\ var_args' = build_var_args(terraform_vars)
    /\ \E proc \in ProcResults :
        /\ cmds' = Append(cmds, Ran("terraform apply", proc))
        /\ IF run_command(proc, TRUE) /= NoExc
           THEN Propagate(run_command(proc, TRUE)) /\ UNCHANGED tf_state
           ELSE (\E st \in AppliedStates : tf_state' = st) /\ Goto("fn_tf_outputs")
    /\ UNCHANGED <<args, call, outputs, cluster_name, region, warned, existv,
                   timev, eksv, podv, lbv>>

\* cluster.py 87-90
FnTfOutputs ==
    /\ pc = "fn_tf_outputs"
    /\ cmds' = Append(cmds, Ran("terraform output", FnProc(tf_state)))
    /\ outputs' = get_outputs(FnProc(tf_state)).val
    /\ IF NoOutputsAfterApply(outputs')
       THEN Propagate("RuntimeError")
       ELSE Goto("fn_refresh")
    /\ UNCHANGED <<args, call, tf_state, cluster_name, region, var_args, warned,
                   existv, timev, eksv, podv, lbv>>

\* cluster.py 95-103
FnRefresh ==
    /\ pc = "fn_refresh"
    /\ IF NonEmpty(outputs)
       THEN UNCHANGED <<outputs, cmds>>
       ELSE /\ cmds' = Append(cmds, Ran("terraform output", FnProc(tf_state)))
            /\ outputs' = get_outputs(FnProc(tf_state)).val
    /\ cluster_name' = Get(outputs', "cluster_name", cluster_name)
    /\ region' = Get(outputs', "region", region)
    /\ Goto("fn_wait")
    /\ UNCHANGED <<args, call, tf_state, var_args, warned, existv, timev, eksv,
                   podv, lbv>>

\* cluster.py 109-111: wait_until_active() and update_kubeconfig() return,
\* or one of them ends in fail()
FnWaitAndKubeconfig ==
    /\ pc = "fn_wait"
    /\ \E proc \in ProcResults :
        /\ cmds' = Append(cmds, Ran("aws eks update-kubeconfig", proc))
        /\ IF run_command(proc, TRUE) /= NoExc
           THEN Propagate(run_command(proc, TRUE))
           ELSE Goto("fn_helm")
    /\ UNCHANGED <<args, call, tf_state, locals, warned, existv, timev, eksv,
                   podv, lbv>>

\* cluster.py 114-121: upgrade_install(set_values=helm_config["set_values"])
FnHelmUpgrade ==
    /\ pc = "fn_helm"
    /\ \E proc \in ProcResults :
        /\ cmds' = Append(cmds, Ran("helm upgrade --install", proc))
        /\ IF run_command(proc, TRUE) /= NoExc
           THEN Propagate(run_command(proc, TRUE))
           ELSE Goto("fn_validation")
    /\ UNCHANGED <<args, call, tf_state, locals, warned, existv, timev, eksv,
                   podv, lbv>>

NextFullnode ==
    \/ CliLoadEnv
    \/ Interrupt
    \/ FnPrelude
    \/ FnDeployOutputs
    \/ FnClusterExists
    \/ FnInitValidate
    \/ FnApply
    \/ FnTfOutputs
    \/ FnRefresh
    \/ FnWaitAndKubeconfig
    \/ FnHelmUpgrade

SpecFullnode == InitFullnode /\ [][NextFullnode]_vars

(***************************************************************************)
(* EKSManager.wait_until_active called on its own (eks.py 78-105): the     *)
(* loop runs on until it returns or raises, hence the fairness condition.  *)
(***************************************************************************)
InitWait ==
    /\ op = "deploy"
    /\ skip_if_exists \in BOOLEAN
    /\ validate \in BOOLEAN
    /\ terraform_vars = EmptyMap
    /\ pc = "wait_start"
    /\ Fresh
    /\ call = NoCall
    /\ helm_config = NoHelmConfig
    /\ tf_state = EmptyMap

NextWait ==
    \/ WaitStart
    \/ WaitTest
    \/ WaitPoll
    \/ WaitSleep
    \/ WaitReturn

SpecWait == InitWait /\ [][NextWait]_vars /\ WF_vars(NextWait)

(***************************************************************************)
(* ClusterManager.deploy run to its end (cluster.py 38-156): every call it *)
(* makes returns or raises and no signal arrives, so the operation keeps   *)
(* taking its next step, hence the fairness condition.                     *)
(***************************************************************************)
InitDeploy ==
    /\ Init
    /\ op = "deploy"

NextDeploy ==
    \/ CliLoadEnv
    \/ DeployGetOutputs
    \/ DeployClusterExists
    \/ TfInit
    \/ TfValidate
    \/ TfApply
    \/ TfOutputs
    \/ DeployRefresh
    \/ WaitStart
    \/ WaitTest
    \/ WaitPoll
    \/ WaitSleep
    \/ WaitReturn
    \/ UpdateKubeconfig
    \/ HelmUpgrade
    \/ ValidateStart
    \/ PodTest
    \/ PodPoll
    \/ PodSleep
    \/ PodReturn
    \/ LbStart
    \/ LbTest
    \/ LbRead
    \/ LbProbe
    \/ LbSleep
    \/ DeployReturn

SpecDeploy == InitDeploy /\ [][NextDeploy]_vars /\ WF_vars(NextDeploy)

(***************************************************************************)
(* Properties.                                                             *)
(***************************************************************************)
Done == pc = "done"

\* the i-th command of the log is cmd and ended as res
RanAs(i, cmd, res) == cmds[i].cmd = cmd /\ cmds[i].res = res

\* update-kubeconfig or helm uninstall exited non-zero
TeardownStepFailed ==
    \E i \in 1..Len(cmds) :
        \/ RanAs(i, "aws eks update-kubeconfig", "nonzero")
        \/ RanAs(i, "helm uninstall", "nonzero")

\* C1: in destroy, a failure of the credential refresh (update-kubeconfig
\* exiting non-zero) or of the Helm uninstall is not propagated: destroy does
\* not end before terraform destroy was invoked.
C1_UninstallFailureNotPropagated ==
    (op = "destroy" /\ TeardownStepFailed /\ Done) =>
        Issued("terraform destroy")

\* some pod of the response has a Ready=True condition / reports phase Failed
AnyReady(ps) == \E i \in 1..Len(ps) : HasReadyCondition(ps[i])
AnyFailed(ps) == \E i \in 1..Len(ps) : ps[i].phase = "Failed"

\* C2: whenever the last poll response of wait_for_pod_ready contains a pod
\* with a Ready=True condition, the loop has succeeded on that poll, whatever
\* the other pods of the response report and wherever they are in the list.
C2_AtLeastOneReady ==
    (podPolls > 0 /\ AnyReady(pods)) => (podState = "ready" /\ pc = "pod_return")

\* C3 as claimed: whenever the last poll response contains a pod in phase
\* Failed, wait_for_pod_ready has failed fatally on that poll, whatever the
\* other pods report.
C3_AnyFailedIsFatal ==
    (podPolls > 0 /\ AnyFailed(pods)) =>
        (podState = "failed" /\ Done /\ exc = fail)

\* C3 as amended: whenever the last poll response contains a pod in phase
\* Failed and no pod with a Ready=True condition, wait_for_pod_ready has failed
\* fatally on that poll: the operation is over (no further poll or sleep), with
\* SystemExit, one sleep having followed each earlier poll and none this one.
C3_FailedWithoutReadyIsFatal ==
    (podPolls > 0 /\ AnyFailed(pods) /\ ~AnyReady(pods)) =>
        (podState = "failed" /\ Done /\ exc = fail /\ ~returned
         /\ podSleeps = podPolls - 1)

\* reached: a Failed pod listed after a pod that is not ready ends the loop
\* before the deadline
C3_Witness ==
    /\ podState = "failed"
    /\ Len(pods) = 2
    /\ pods[1].phase = "Pending"
    /\ pods[2].phase = "Failed"
    /\ clock < deadline

\* the marker is a non-negative integer: a JSON integer >= 0 or a non-empty
\* string of decimal digits
IsNonNegativeInteger(m) ==
    \/ m.t = "int" /\ m.n >= 0
    \/ m.t = "str" /\ Len(m.s) > 0 /\ \A i \in 1..Len(m.s) : m.s[i] \in AsciiDigits

\* C4: wait_for_loadbalancer_and_api reports success only on an attempt whose
\* response has status 200 and a JSON body carrying a ledger_version that is a
\* non-negative integer.
C4_HealthyOnlyWithValidMarker ==
    (lbState = "healthy") =>
        /\ http.kind = "response"
        /\ http.status = 200
        /\ http.body.json = "object"
        /\ http.body.has
        /\ IsNonNegativeInteger(http.body.marker)

\* C5: whenever a poll of wait_until_active has observed ACTIVE, the function
\* is at its return with success (or a KeyboardInterrupt ended the operation
\* there): one sleep followed each earlier poll and none followed this one,
\* and no poll or sleep is the next step.
C5_ActiveReturnsAtOnce ==
    (status = "ACTIVE") =>
        /\ pc = "wait_return" \/ (Done /\ exc = "KeyboardInterrupt")
        /\ eksState = "success"
        /\ exc \in {NoExc, "KeyboardInterrupt"}
        /\ eksSleeps = eksPolls - 1
        /\ ~ENABLED WaitPoll
        /\ ~ENABLED WaitSleep

\* reached: ACTIVE observed by the second poll
C5_Witness == status = "ACTIVE" /\ eksPolls = 2 /\ eksState = "success"

\* C6: whenever a poll of wait_until_active has observed FAILED or DELETING,
\* the operation is over with SystemExit (no further poll, no sleep, no
\* success), one sleep having followed each earlier poll and none this one.
C6_TerminalStatusIsFatal ==
    (status \in {"FAILED", "DELETING"}) =>
        /\ Done
        /\ exc = fail
        /\ ~returned
        /\ eksState = "fatal"
        /\ eksSleeps = eksPolls - 1
        /\ ~ENABLED Next

\* reached: DELETING observed before the deadline
C6_Witness ==
    status = "DELETING" /\ eksState = "fatal" /\ clock < deadline /\ eksPolls = 2

ProvisioningCommands == {"terraform init -upgrade", "terraform validate", "terraform apply"}

\* C7: in deploy with skip_if_exists, once cluster_exists returned true no
\* terraform init, validate or apply is ever issued, the operation is past the
\* provisioning stage, and it ends normally only after wait_until_active
\* succeeded and update-kubeconfig and helm upgrade --install exited zero.
C7_SkipWhenClusterExists ==
    (op = "deploy" /\ skip_if_exists /\ exists = "yes") =>
        /\ \A i \in 1..Len(cmds) : cmds[i].cmd \notin ProvisioningCommands
        /\ pc \notin {"deploy_outputs", "deploy_exists", "tf_init", "tf_validate",
                      "tf_apply", "tf_outputs"}
        /\ (pc = "deploy_refresh" => ENABLED DeployRefresh)
        /\ returned =>
            /\ eksState = "success"
            /\ \E i, j \in 1..Len(cmds) :
                /\ i < j
                /\ RanAs(i, "aws eks update-kubeconfig", "zero")
                /\ RanAs(j, "helm upgrade --install", "zero")

\* reached: the skipping deploy has installed the release and returned
C7_Witness ==
    /\ op = "deploy" /\ skip_if_exists /\ exists = "yes" /\ returned
    /\ Issued("helm upgrade --install")

\* C8: in deploy, when terraform apply exited zero and the outputs query after
\* it returned an empty mapping, the operation is over with RuntimeError and
\* that query is the last command: no cluster wait, credential refresh, Helm
\* command or validation follows.
C8_NoOutputsAfterApplyIsFatal ==
    \A i \in 1..Len(cmds) :
        (/\ op = "deploy"
         /\ RanAs(i, "terraform apply", "zero")
         /\ i < Len(cmds)
         /\ RanAs(i + 1, "terraform output", "zero") \/ RanAs(i + 1, "terraform output", "nonzero")
         /\ outputs = EmptyMap
         /\ exc /= "AttributeError") =>
            /\ Done
            /\ exc = "RuntimeError"
            /\ ~returned
            /\ Len(cmds) = i + 1
            /\ eksState = "idle" /\ podState = "idle" /\ lbState = "idle"
            /\ eksPolls = 0 /\ podPolls = 0 /\ lbReads = 0 /\ httpGets = 0

\* reached: the apply succeeded and the outputs query that followed exited
\* non-zero
C8_Witness ==
    /\ exc = "RuntimeError"
    /\ Len(cmds) > 1
    /\ RanAs(Len(cmds) - 1, "terraform apply", "zero")
    /\ RanAs(Len(cmds), "terraform output", "nonzero")

\* the outputs name no cluster or no region (the empty mapping included)
LacksClusterOrRegion(outs) ==
    "cluster_name" \notin DOMAIN outs \/ "region" \notin DOMAIN outs

\* C9: destroy with outputs that are empty or lack the cluster name or the
\* region issues no update-kubeconfig and no helm uninstall; it runs only
\* terraform init, terraform output and terraform destroy, the last with
\* the caller's variables.
C9_NoTargetNoUninstall ==
    (op = "destroy" /\ LacksClusterOrRegion(outputs)) =>
        /\ \A i \in 1..Len(cmds) :
              cmds[i].cmd \in {"terraform init", "terraform output", "terraform destroy"}
        /\ pc \notin {"destroy_kubeconfig", "destroy_uninstall"}
        /\ ~warned
        /\ Issued("terraform destroy") =>
              var_args = build_var_args(terraform_vars)
        /\ returned => RanAs(Len(cmds), "terraform destroy", "zero")

\* reached: destroy has run terraform destroy, with variables, on non-empty
\* outputs that name a cluster but no region
C9_Witness ==
    /\ op = "destroy" /\ returned
    /\ DOMAIN outputs = {"cluster_name", "vpc_id"}
    /\ Issued("terraform destroy")
    /\ var_args /= {}

\* C10: cluster_exists maps the result of describe-cluster to exactly one of
\* three outcomes: true on exit code 0, false on a non-zero exit with
\* ResourceNotFoundException in stderr, SystemExit on any other non-zero
\* exit; false is returned for no other result, and a SystemExit after true
\* or false was returned comes from a later step of deploy.
C10_ClusterExistsOutcomes ==
    (exists /= "unknown" /\ describe.spawned) =>
        /\ exists \in {"yes", "no", "raised"}
        /\ (exists = "yes") <=> (describe.rc = 0)
        /\ (exists = "no") <=>
              (describe.rc /= 0 /\ Contains(describe.stderr, "ResourceNotFoundException"))
        /\ (exists = "raised") => (Done /\ exc = fail /\ ~returned)
        /\ (exists \in {"yes", "no"} /\ Done /\ exc = fail) => Len(cmds) > 2 \/ eksState /= "idle"

\* reached: a describe-cluster error that is not a not-found error
C10_Witness ==
    /\ exists = "raised"
    /\ describe.rc /= 0
    /\ describe.stderr = DeniedErr
    /\ exc = fail


\* the call of fn has been applied to its input
Applied(fn) == call.fn = fn /\ call.out /= <<>>

\* the output command ran and exited non-zero, printed nothing, or printed
\* text that is not JSON
FailedOrUnparsable(proc) ==
    proc.spawned /\ (proc.rc /= 0 \/ proc.stdout.json \in {"blank", "garbage"})

\* C11: get_outputs applied to a `terraform output` that exited non-zero,
\* printed nothing or printed text that cannot be parsed returns the empty
\* mapping and raises nothing.
C11_EmptyMappingNeverError ==
    (Applied("get_outputs") /\ FailedOrUnparsable(call.in)) =>
        call.out[1] = [exc |-> NoExc, val |-> EmptyMap]

\* reached: get_outputs returned the empty mapping for unparsable text
C11_Witness ==
    /\ Applied("get_outputs")
    /\ call.in.spawned /\ call.in.rc = 0 /\ call.in.stdout.json = "garbage"
    /\ call.out[1].exc = NoExc
    /\ call.out[1].val = EmptyMap

\* C12: the process has an exit code exactly when the operation is over; the
\* code is 0 exactly when the operation returned normally, 130 exactly when a
\* KeyboardInterrupt ended it, and 1 in every other case, the SystemExit of
\* fail() (raised in a component or for a missing env file) included.
C12_ExitCodes ==
    /\ Done <=> exit_code /= <<>>
    /\ Done =>
        /\ exit_code \in {<<0>>, <<1>>, <<130>>}
        /\ exit_code = <<0>> <=> (returned /\ exc = NoExc)
        /\ exit_code = <<130>> <=> exc = "KeyboardInterrupt"
        /\ exit_code = <<1>> <=> (~returned /\ exc /= "KeyboardInterrupt")
        /\ exc = fail => exit_code = <<1>>
        /\ returned => exc = NoExc

\* reached: Ctrl-C inside the load-balancer loop, whose `except Exception`
\* does not catch it, ended the process with 130
C12_Witness ==
    /\ Done
    /\ exc = "KeyboardInterrupt"
    /\ exit_code = <<130>>
    /\ lbState = "polling"
    /\ lbReads > 0

\* the commands deploy runs with check=True
DeployCheckedCommands ==
    {"terraform init -upgrade", "terraform validate", "terraform apply",
     "aws eks update-kubeconfig", "helm upgrade --install"}

\* the existence check's describe-cluster failed with another error than
\* not-found
DescribeError ==
    /\ describe.spawned
    /\ describe.rc /= 0
    /\ ~Contains(describe.stderr, "ResourceNotFoundException")

\* the outputs query after a successful apply returned the empty mapping
EmptyOutputsAfterApply ==
    /\ Len(cmds) > 1
    /\ RanAs(Len(cmds) - 1, "terraform apply", "zero")
    /\ cmds[Len(cmds)].cmd = "terraform output"
    /\ cmds[Len(cmds)].res /= "nospawn"
    /\ outputs = EmptyMap
    /\ exc /= "AttributeError"

\* the fatal conditions of deploy other than a Failed pod
FatalConditionBesidesPods ==
    \/ DescribeError
    \/ status \in {"FAILED", "DELETING"}
    \/ eksState = "timeout"
    \/ EmptyOutputsAfterApply
    \/ podState = "timeout"
    \/ lbState = "timeout"

\* the whole operation is over: nothing more is issued, no payload, exit
\* code other than 0
Terminated ==
    /\ Done
    /\ ~returned
    /\ exit_code \in {<<1>>, <<130>>}
    /\ ~ENABLED Next

\* a checked command of deploy exited non-zero: it is the last command
CheckedExitIsLast ==
    \A i \in 1..Len(cmds) :
        (cmds[i].cmd \in DeployCheckedCommands /\ cmds[i].res = "nonzero") =>
            (i = Len(cmds) /\ Terminated)

\* C13 as stated: in deploy each of the listed conditions, a pod in phase
\* Failed in the last pod list included, means that the operation is over
\* with no further command or call, no payload and a non-zero exit.
C13_EveryFatalConditionTerminates ==
    (op = "deploy") =>
        /\ CheckedExitIsLast
        /\ FatalConditionBesidesPods => Terminated
        /\ AnyFailed(pods) => Terminated

\* C13: in deploy a non-zero exit of terraform init, validate or apply, of
\* update-kubeconfig or of helm upgrade, a describe error other than
\* not-found, status FAILED or DELETING, a cluster-wait timeout, no outputs
\* after apply, a pod list with a Failed pod and no Ready pod, a pod timeout
\* and an exhausted retry budget each end the operation: no further command
\* or call, no payload, non-zero exit.
C13_FatalConditionTerminates ==
    (op = "deploy") =>
        /\ CheckedExitIsLast
        /\ FatalConditionBesidesPods => Terminated
        /\ (AnyFailed(pods) /\ ~AnyReady(pods)) => Terminated

\* reached: helm upgrade --install exited non-zero and ended deploy
C13_Witness ==
    /\ op = "deploy"
    /\ Len(cmds) > 0
    /\ RanAs(Len(cmds), "helm upgrade --install", "nonzero")
    /\ exc = fail
    /\ exit_code = <<1>>


\* C14: the load-balancer/API loop has started only if validate_api is set
\* and wait_for_pod_ready has succeeded; validate_deployment returns only
\* after wait_for_pod_ready succeeded; with validate_api unset there is no
\* service read and no HTTP request.
C14_PodLoopFirstLbOptional ==
    /\ lbState /= "idle" => (validate /\ podState = "ready")
    /\ pc \in {"lb_start", "lb_test", "lb_read", "lb_probe", "lb_sleep"} =>
          (validate /\ podState = "ready")
    /\ pc = "deploy_return" => podState = "ready"
    /\ (op = "deploy" /\ returned) => podState = "ready"
    /\ ~validate => (lbReads = 0 /\ httpGets = 0 /\ lbSleeps = 0 /\ lbState = "idle")

\* reached: deploy without validate_api returned after the pod loop alone
C14_Witness ==
    /\ op = "deploy"
    /\ ~validate
    /\ returned
    /\ podState = "ready"
    /\ lbState = "idle"
    /\ lbReads = 0

\* C15 as stated: a deploy call that does not pass False for `validate`
\* (one that leaves the argument out included) goes on to the
\* load-balancer/API loop after pod readiness.
C15_ValidatesApiUnlessDisabled ==
    (Applied("deploy") /\ call.in /= "False") =>
        (call.out[1].validate_api /\ call.out[1].after_pods = "lb_start")

\* C15: deploy passes its `validate` parameter, which defaults to False, as
\* validate_api: the load-balancer/API loop follows pod readiness exactly
\* when the caller passed validate=True; a call that leaves the argument out
\* returns after pod readiness.
C15_ValidatesApiOnlyOnRequest ==
    Applied("deploy") =>
        /\ call.out[1].validate_api <=> call.in = "True"
        /\ call.out[1].after_pods = "lb_start" <=> call.in = "True"
        /\ call.in = Omitted => call.out[1].after_pods = "deploy_return"

\* reached: a deploy call without the argument, bound and past pod readiness
C15_Witness ==
    /\ Applied("deploy")
    /\ call.in = Omitted
    /\ ~call.out[1].validate_api
    /\ call.out[1].after_pods = "deploy_return"

\* C16: wait_for_loadbalancer_and_api reads the service at most `retries`
\* times and sends at most `retries` HTTP requests, at most one of each per
\* attempt; once the attempts are used up without a validated marker it
\* ends in fail(), and deploy returns with validate_api only after a
\* validated marker.
C16_LbLoopBounded ==
    /\ lbReads <= retries
    /\ httpGets <= retries
    /\ httpGets <= lbReads
    /\ lbReads <= attempt
    /\ lbSleeps <= retries
    /\ (pc = "lb_test" /\ attempt > retries) => (lbState = "polling" /\ ~ENABLED LbRead)
    /\ lbState = "timeout" =>
          (Done /\ exc = fail /\ ~returned /\ lbReads = retries /\ attempt = retries + 1)
    /\ (op = "deploy" /\ validate /\ returned) => lbState = "healthy"

\* reached: every attempt of a non-empty budget read the service and sent a
\* request, none found a validated marker, and the loop failed
C16_Witness ==
    /\ lbState = "timeout"
    /\ retries > 1
    /\ lbReads = retries
    /\ httpGets = retries
    /\ exc = fail

\* C17: a helm uninstall that exited zero or non-zero raises nothing:
\* destroy logs no warning, goes on to terraform destroy, and is not over at
\* that command unless a KeyboardInterrupt ended it.
C17_UninstallBestEffort ==
    \A i \in 1..Len(cmds) :
        (cmds[i].cmd = "helm uninstall" /\ cmds[i].res \in {"zero", "nonzero"}) =>
            /\ ~warned
            /\ pc \in {"destroy_tf", "done"}
            /\ (Done /\ i = Len(cmds)) => exc = "KeyboardInterrupt"
            /\ (Done /\ i < Len(cmds)) => cmds[i + 1].cmd = "terraform destroy"

\* reached: destroy returned after a helm uninstall that exited non-zero
C17_Witness ==
    /\ op = "destroy"
    /\ returned
    /\ ~warned
    /\ \E i \in 1..Len(cmds) : RanAs(i, "helm uninstall", "nonzero")

\* the keys build_var_args emitted a -var pair for
EmittedKeys(pairs) == {p.key : p \in pairs}

\* C18: the result of build_var_args has a -var pair for a key exactly when
\* the mapping has the key with a value other than None, and one pair only.
C18_NullEntriesOmitted ==
    Applied("build_var_args") =>
        /\ \A k \in VarKeys :
              k \in EmittedKeys(call.out[1]) <=>
                  (k \in DOMAIN call.in /\ call.in[k] /= None)
        /\ Cardinality(call.out[1]) = Cardinality(EmittedKeys(call.out[1]))

\* reached: a mapping with a None entry and another entry gave the other
\* entry's pair alone
C18_Witness ==
    /\ Applied("build_var_args")
    /\ DOMAIN call.in = VarKeys
    /\ call.in["validator_name"] = None
    /\ call.in["enable_dns"] = ""
    /\ call.out[1] = {[key |-> "enable_dns", text |-> ""]}

\* C19: for every entry whose value is a bool the text of its pair is
\* exactly "true" for True and "false" for False.
C19_BooleansLowercase ==
    Applied("build_var_args") =>
        \A k \in DOMAIN call.in :
            /\ call.in[k] = PyTrue =>
                  {p.text : p \in {q \in call.out[1] : q.key = k}} = {"true"}
            /\ call.in[k] = PyFalse =>
                  {p.text : p \in {q \in call.out[1] : q.key = k}} = {"false"}

\* reached: a mapping with True and with the int 1, rendered "true" and "1"
C19_Witness ==
    /\ Applied("build_var_args")
    /\ DOMAIN call.in = VarKeys
    /\ call.in["enable_dns"] = PyTrue
    /\ call.in["validator_name"] = PyOne
    /\ [key |-> "enable_dns", text |-> "true"] \in call.out[1]
    /\ [key |-> "validator_name", text |-> "1"] \in call.out[1]

\* deploy is past the decision whether to provision: at a later statement,
\* or over after a command that follows the decision
PastProvisioningDecision ==
    /\ op = "deploy"
    /\ \/ pc \notin {"cli_load_env", "deploy_outputs", "deploy_exists", "done"}
       \/ \E i \in 1..Len(cmds) :
              cmds[i].cmd \notin {"terraform output", "aws eks describe-cluster"}

\* deploy has left the provisioning stage without running it
SkippedProvisioning ==
    /\ op = "deploy"
    /\ pc = "deploy_refresh"
    /\ ~Issued("terraform init -upgrade")

\* C20 as stated: deploy has skipped provisioning only if the outputs query
\* was non-empty and the cluster exists.
C20_SkipsOnlyWithOutputs ==
    SkippedProvisioning => (NonEmpty(outputs) /\ exists = "yes")

\* C20: deploy has skipped provisioning only if skip_if_exists is set and
\* cluster_exists returned true for the derived name and region, whether
\* the outputs query was empty or not; in every other case terraform init
\* is the next command.
C20_SkipsOnlyWhenClusterExists ==
    /\ SkippedProvisioning => (skip_if_exists /\ exists = "yes")
    /\ (PastProvisioningDecision /\ ~(skip_if_exists /\ exists = "yes")) =>
          (pc = "tf_init" \/ Issued("terraform init -upgrade"))

\* reached: provisioning skipped although the outputs query was empty
C20_Witness ==
    /\ SkippedProvisioning
    /\ outputs = EmptyMap
    /\ cluster_name = "demo-cluster"
    /\ exists = "yes"


\* C21: a deploy run with --validate that exits with code 0 has observed a
\* pod with Ready=True and, after it, a response of the load-balancer
\* endpoint with status 200 and a ledger_version that is a non-negative
\* integer.
C21_ExitZeroOnlyAfterBothValidations ==
    (op = "deploy" /\ validate /\ exit_code = <<0>>) =>
        /\ podState = "ready"
        /\ lbState = "healthy"
        /\ lbReads > 0
        /\ httpGets > 0
        /\ http.kind = "response"
        /\ http.status = 200
        /\ http.body.json = "object"
        /\ http.body.has
        /\ IsNonNegativeInteger(http.body.marker)


\* every command of the run exited zero and the outputs in effect name the
\* cluster and the region; no Ctrl-C
VfnEverythingSucceeded ==
    /\ op = "vfn_deploy"
    /\ validate
    /\ Len(cmds) >= 2
    /\ \A i \in 1..Len(cmds) : cmds[i].res = "zero"
    /\ "cluster_name" \in DOMAIN outputs
    /\ "region" \in DOMAIN outputs
    /\ exc \notin {"KeyboardInterrupt", "AttributeError"}

\* C22: the validator-vfn deploy run with --validate, every command
\* succeeding, ends with exit code 0.
C22_VfnDeployExitsZero ==
    (VfnEverythingSucceeded /\ Done) => exit_code = <<0>>


\* C23: run_command on a process that exited non-zero raises RuntimeError,
\* an exception that `except Exception` catches, when check is set, and
\* returns the process whatever its exit code when check is not set.
C23_CheckedExitRaisesRuntimeError ==
    (Applied("run_command") /\ call.in.proc.spawned) =>
        /\ (call.in.check /\ call.in.proc.rc /= 0) =>
              (call.out[1] = "RuntimeError" /\ Caught(call.out[1]))
        /\ (call.in.check /\ call.in.proc.rc = 0) => call.out[1] = NoExc
        /\ ~call.in.check => call.out[1] = NoExc


\* the bootstrap set-values that the outputs call for
BootstrapFor(outs) ==
    IF Signals(outs, "fullnode_bootstrap_enabled")
    THEN [enabled |-> "true",
          bucket |-> S3Bucket(Get(outs, "fullnode_bootstrap_s3_uri", None)),
          prefix |-> S3Prefix(Get(outs, "fullnode_bootstrap_s3_uri", None)),
          region |-> Get(outs, "fullnode_bootstrap_region", None)]
    ELSE BootstrapOff

\* C24: when the public-fullnode deploy has issued helm upgrade --install,
\* the set-values carry bootstrap.enabled=true with the bucket, prefix and
\* region of the outputs exactly when the outputs deploy holds for this run
\* (those of the apply of the same run included) signal
\* fullnode_bootstrap_enabled.
C24_BootstrapFollowsOutputsInEffect ==
    (op = "fullnode_deploy" /\ Issued("helm upgrade --install")) =>
        helm_config = BootstrapFor(outputs)


\* deploy has provisioned (a successful apply) or has skipped provisioning
ProvisionedOrSkipped ==
    \/ \E i \in 1..Len(cmds) : RanAs(i, "terraform apply", "zero")
    \/ skip_if_exists /\ exists = "yes" /\ ~Issued("terraform init -upgrade")

\* C25: in ClusterManager.deploy each stage starts only after the previous
\* one succeeded: the wait for the cluster starts after provisioning or its
\* skip, update-kubeconfig is issued only after wait_until_active returned
\* success, helm upgrade --install only directly after a successful
\* update-kubeconfig, the pod loop only after a successful Helm command
\* (the last command of deploy), and the load-balancer loop only after the
\* pod loop found a ready pod.
C25_StagesInOrder ==
    (op = "deploy") =>
        /\ (eksState /= "idle") => ProvisionedOrSkipped
        /\ \A j \in 1..Len(cmds) :
            /\ (cmds[j].cmd = "aws eks update-kubeconfig") => eksState = "success"
            /\ (cmds[j].cmd = "helm upgrade --install") =>
                  /\ eksState = "success"
                  /\ j > 1
                  /\ RanAs(j - 1, "aws eks update-kubeconfig", "zero")
        /\ (podState /= "idle") =>
              (cmds /= <<>> /\ RanAs(Len(cmds), "helm upgrade --install", "zero"))
        /\ (lbState /= "idle") => podState = "ready"

\* reached: a deploy that provisioned and went through every stage
C25_Witness ==
    /\ op = "deploy"
    /\ returned
    /\ Issued("terraform apply")
    /\ eksState = "success"
    /\ podState = "ready"
    /\ lbState = "healthy"


\* the positions of cmd in the command log
IndicesOf(cmd) == {i \in 1..Len(cmds) : cmds[i].cmd = cmd}

\* C26: in ClusterManager.destroy a Helm uninstall is issued at most once
\* and directly after a successful update-kubeconfig; terraform destroy is
\* issued at most once and is the last command, so that the uninstall
\* precedes it and nothing is uninstalled after it.
C26_TeardownInReverseOrder ==
    (op = "destroy") =>
        /\ Cardinality(IndicesOf("helm uninstall")) <= 1
        /\ \A j \in IndicesOf("helm uninstall") :
              j > 1 /\ RanAs(j - 1, "aws eks update-kubeconfig", "zero")
        /\ Cardinality(IndicesOf("terraform destroy")) <= 1
        /\ \A j \in IndicesOf("terraform destroy") : j = Len(cmds)
        /\ (pc \in {"destroy_kubeconfig", "destroy_uninstall"}) =>
              ~Issued("terraform destroy")

\* reached: a destroy that refreshed the credentials, uninstalled the
\* release and then destroyed the infrastructure
C26_Witness ==
    /\ op = "destroy"
    /\ returned
    /\ Len(cmds) = 5
    /\ RanAs(3, "aws eks update-kubeconfig", "zero")
    /\ cmds[4].cmd = "helm uninstall"
    /\ RanAs(5, "terraform destroy", "zero")


\* C27: the first command of ClusterManager.destroy is terraform init
\* without -upgrade, and the outputs are queried only after it exited with
\* zero; if the init fails (a non-zero exit, or a binary that cannot be
\* started) destroy ends there with exit code 1 and no other command, so
\* neither helm uninstall nor terraform destroy is issued.
C27_InitFirstAndFatal ==
    (op = "destroy" /\ cmds /= <<>>) =>
        /\ cmds[1].cmd = "terraform init"
        /\ IndicesOf("terraform init") = {1}
        /\ ~Issued("terraform init -upgrade")
        /\ Issued("terraform output") => RanAs(1, "terraform init", "zero")
        /\ (cmds[1].res /= "zero") =>
              /\ Len(cmds) = 1
              /\ Done /\ ~returned
              /\ exc = (IF cmds[1].res = "nonzero" THEN fail ELSE "OSError")
              /\ exit_code = <<ExitFailure>>

\* reached: destroy ended by a terraform init that exited with non-zero
C27_Witness ==
    /\ op = "destroy"
    /\ cmds = <<[cmd |-> "terraform init", res |-> "nonzero"]>>
    /\ exc = fail
    /\ exit_code = <<ExitFailure>>


\* where wait_until_active stands in its loop: as many sleeps as polls
\* before the deadline test and the poll, one sleep fewer after a poll; a
\* poll is made only with the deadline not reached, and the sleep is
\* reached only with a status that is none of ACTIVE, FAILED, DELETING
WaitLoopShape ==
    /\ (pc = "wait_test") => eksSleeps = eksPolls
    /\ (pc = "wait_poll") => (eksSleeps = eksPolls /\ clock < deadline)
    /\ (pc = "wait_sleep") =>
          /\ eksSleeps = eksPolls - 1
          /\ status \notin {"ACTIVE", "FAILED", "DELETING"}

\* one step of the loop: a poll is one list call made at wait_poll after
\* the deadline test, a sleep takes `interval` of the clock and leads to
\* the deadline test
WaitLoopStep ==
    /\ (eksPolls' > eksPolls) =>
          /\ pc = "wait_poll" /\ eksPolls' = eksPolls + 1
          /\ eksSleeps = eksPolls /\ clock < deadline
          /\ pc' \in {"wait_return", "wait_sleep", "done"}
    /\ (eksSleeps' > eksSleeps) =>
          /\ pc = "wait_sleep" /\ eksSleeps' = eksSleeps + 1
          /\ clock' = clock + interval
          /\ pc' = "wait_test"
    /\ (pc = "wait_sleep" /\ pc' /= "done") => eksSleeps' = eksSleeps + 1

\* C28: wait_until_active is never a tight loop: between two consecutive
\* polls there is exactly one sleep, of `interval`, and every iteration
\* evaluates the deadline before its poll and both status conditions
\* (ACTIVE; FAILED or DELETING) after it.
C28_NeverTightLoop == []WaitLoopShape /\ [][WaitLoopStep]_vars

\* reached: a second poll, one sleep of `interval` after the first
C28_Witness ==
    /\ pc = "wait_sleep"
    /\ eksPolls = 2
    /\ eksSleeps = 1
    /\ clock >= interval
    /\ status = "CREATING"


\* the statuses that end wait_until_active
ExitStatuses == {"ACTIVE", "FAILED", "DELETING"}

\* wait_until_active has ended: it returned, it called fail(), or the
\* status command could not be started
WaitEnded ==
    \/ eksState \in {"success", "fatal", "timeout"}
    \/ exc = "OSError"

\* the three exit states exclude each other and each has its cause
WaitExitStates ==
    /\ eksState \in {"idle", "polling", "success", "fatal", "timeout"}
    /\ (eksState = "success") =>
          /\ exc = NoExc
          /\ pc \in {"wait_return", "kubeconfig"}
          /\ (pc = "wait_return") => status = "ACTIVE"
    /\ (eksState = "fatal") =>
          (Done /\ exc = fail /\ status \in {"FAILED", "DELETING"})
    /\ (eksState = "timeout") =>
          /\ Done /\ exc = fail
          /\ clock >= deadline
          /\ status \notin ExitStatuses
          /\ (eksPolls > 0) => ((eksPolls - 1) * interval < deadline)
    /\ (eksState = "polling") => (exc \in {NoExc, "OSError"})

\* a poll that returns None leaves the loop running
NoneKeepsWaiting ==
    (eksPolls' > eksPolls /\ status' = None /\ exc' = NoExc) =>
        (eksState' = "polling" /\ pc' = "wait_sleep")

\* C29: wait_until_active always ends, and in exactly one of three exit
\* states (success, terminal failure, timeout), unless the status command
\* cannot be started; if no poll observes ACTIVE, FAILED or DELETING, it
\* ends with the fatal timeout after a number of polls that the deadline
\* and the interval (> 0) bound; a poll that returns None never leads to
\* success or terminal failure.
C29_EndsInOneExitState ==
    /\ []WaitExitStates
    /\ [][NoneKeepsWaiting]_vars
    /\ <>WaitEnded
    /\ ([](status \notin ExitStatuses /\ exc /= "OSError") => <>(eksState = "timeout"))

\* reached: the fatal timeout after two polls that returned None
C29_Witness ==
    /\ eksState = "timeout"
    /\ status = None
    /\ eksPolls = 2
    /\ exc = fail


\* where wait_for_pod_ready stands: the sleep is reached only after a
\* response with no ready and no failed pod; after an empty response the
\* loop has not failed; the timeout is reported with the deadline reached
\* and a last response with no ready and no failed pod
PodLoopShape ==
    /\ (pc = "pod_sleep") =>
          (podState = "polling" /\ ~AnyReady(pods) /\ ~AnyFailed(pods))
    /\ (podPolls > 0 /\ pods = <<>>) =>
          /\ podState \in {"polling", "timeout"}
          /\ (exc = fail) => podState = "timeout"
    /\ (podState = "timeout") =>
          /\ Done /\ exc = fail
          /\ clock >= deadline
          /\ ~AnyReady(pods) /\ ~AnyFailed(pods)

\* one step of the loop: an empty response leads to the sleep, the sleep
\* takes `interval` and leads to the deadline test, the test leads to the
\* next poll while the deadline has not passed and to the timeout otherwise
PodLoopStep ==
    /\ (pc = "pod_poll" /\ podPolls' > podPolls /\ pods' = <<>> /\ exc' = NoExc) =>
          (pc' = "pod_sleep" /\ podState' = "polling")
    /\ (pc = "pod_sleep" /\ exc' = NoExc) =>
          (clock' = clock + interval /\ podSleeps' = podSleeps + 1 /\ pc' = "pod_test")
    /\ (pc = "pod_test" /\ exc' /= "KeyboardInterrupt") =>
          IF clock < deadline
          THEN pc' = "pod_poll" /\ exc' = NoExc
          ELSE podState' = "timeout" /\ exc' = fail

\* C30: in wait_for_pod_ready a poll that finds zero pods is no failure: the
\* loop sleeps `interval`, tests the deadline and polls again while it has
\* not passed; the fatal timeout is reported only with the deadline reached
\* and neither a ready nor a failed pod in the responses.
C30_ZeroPodsIsNoFailure == []PodLoopShape /\ [][PodLoopStep]_vars

\* reached: the second poll is due after an empty response and one sleep
C30_Witness ==
    /\ pc = "pod_poll"
    /\ podPolls = 1
    /\ podSleeps = 1
    /\ pods = <<>>
    /\ clock < deadline


\* the step is not cut short by a KeyboardInterrupt
NotInterrupted == exc' /= "KeyboardInterrupt"

\* where wait_for_loadbalancer_and_api stands: one sleep for each attempt
\* that is over, and the timeout only with the budget used up
LbLoopShape ==
    /\ (pc \in {"lb_test", "lb_read", "lb_probe"}) => lbSleeps = attempt - 1
    /\ (pc = "lb_sleep") => (lbSleeps = attempt - 1 /\ lbReads = attempt)
    /\ (lbState /= "idle") => clock = lbSleeps * interval
    /\ (lbState = "timeout") =>
          /\ Done /\ exc = fail
          /\ attempt = retries + 1
          /\ lbReads = retries /\ lbSleeps = retries

\* one step of the loop: the service read and the request raise nothing,
\* an attempt without a healthy answer goes to the sleep, the sleep takes
\* `interval` and moves to the next attempt, and the loop ends in fail()
\* only when the attempts are used up
LbLoopStep ==
    NotInterrupted =>
        /\ (pc = "lb_read") =>
              (exc' = NoExc /\ lbState' = "polling" /\ pc' \in {"lb_probe", "lb_sleep"})
        /\ (pc = "lb_probe" /\ ProbeVerdict(http') /= "healthy") =>
              (exc' = NoExc /\ lbState' = "polling" /\ pc' = "lb_sleep")
        /\ (pc = "lb_sleep") =>
              /\ attempt' = attempt + 1 /\ lbSleeps' = lbSleeps + 1
              /\ clock' = clock + interval
              /\ pc' = "lb_test"
        /\ (pc = "lb_test") =>
              IF attempt <= retries
              THEN pc' = "lb_read" /\ exc' = NoExc
              ELSE lbState' = "timeout" /\ exc' = fail

\* C31: in wait_for_loadbalancer_and_api no error of one attempt is fatal: a
\* failed service read, a connection error, an HTTP error status, a non-200
\* response and an unparsable body each end the attempt with one sleep of
\* `interval`, and the loop goes on until the attempts are used up.
C31_AttemptErrorsNotFatal == []LbLoopShape /\ [][LbLoopStep]_vars

\* reached: the budget of two attempts used up, the last one by an HTTP
\* error status
C31_Witness ==
    /\ lbState = "timeout"
    /\ retries = 2
    /\ lbSleeps = 2
    /\ http.kind = "httperror"


\* C32: in wait_for_loadbalancer_and_api an attempt that read no address
\* (no ingress entry, or one whose hostname or IP is empty after strip())
\* issues no HTTP request, raises nothing and goes on to the sleep and the
\* next attempt; each HTTP request is issued on an attempt whose service
\* read gave a non-empty host, at most one per attempt.
C32_NoAddressNoRequest ==
    /\ []((pc = "lb_probe") => host /= "")
    /\ [](httpGets <= lbReads)
    /\ [][/\ (httpGets' > httpGets) =>
               (pc = "lb_probe" /\ host /= "" /\ httpGets' = httpGets + 1)
          /\ (pc = "lb_read" /\ NotInterrupted /\ host' = "") =>
               /\ pc' = "lb_sleep"
               /\ httpGets' = httpGets
               /\ exc' = NoExc
               /\ lbState' = "polling"]_vars

\* reached: the second attempt is due after a first one without an address
\* and without a request
C32_Witness ==
    /\ pc = "lb_read"
    /\ attempt = 2
    /\ host = ""
    /\ lbReads = 1
    /\ httpGets = 0
    /\ lbState = "polling"


\* the fallback of the claim: <validator_name>-cluster, the region variable
\* or us-east-1, unless the outputs queried first name them
FallbackName(pre, tfvars) ==
    Or(Get(pre, "cluster_name", None),
       ClusterSuffix(Get(tfvars, "validator_name", "demo")))

\* C33: for every outputs mapping and every terraform_vars, deploy's final
\* cluster name and region are those of the outputs where the outputs
\* contain the keys and the pre-apply derivation otherwise, and the
\* resolution raises nothing.
C33_FinalNamesNeverCrash ==
    Applied("resolve_names") =>
        LET in == call.in
            out == call.out[1] IN
        /\ out.exc = NoExc
        /\ out.name = (IF "cluster_name" \in DOMAIN in.post
                       THEN in.post["cluster_name"]
                       ELSE FallbackName(in.pre, in.vars))
        /\ out.region = (IF "region" \in DOMAIN in.post
                         THEN in.post["region"]
                         ELSE DerivedRegion(in.pre, in.vars))


\* C34: with skip_if_exists false, ClusterManager.deploy never queries the
\* existence of the cluster and never skips the provisioning: terraform
\* init -upgrade follows the outputs query,
\* terraform validate directly follows a successful init, terraform apply
\* directly follows a successful validate, and the later stages start only
\* after a successful apply.
C34_ForceCreateProvisions ==
    (op = "deploy" /\ ~skip_if_exists) =>
        /\ ~Issued("aws eks describe-cluster")
        /\ exists = "unknown"
        /\ \A j \in 1..Len(cmds) :
            /\ (cmds[j].cmd = "terraform init -upgrade") =>
                  (j = 2 /\ cmds[1].cmd = "terraform output")
            /\ (cmds[j].cmd = "terraform validate") =>
                  (j = 3 /\ RanAs(2, "terraform init -upgrade", "zero"))
            /\ (cmds[j].cmd = "terraform apply") =>
                  (j = 4 /\ RanAs(3, "terraform validate", "zero"))
        /\ PastProvisioningDecision =>
              (pc = "tf_init" \/ Issued("terraform init -upgrade"))
        /\ (pc = "deploy_refresh" \/ eksState /= "idle") =>
              (Len(cmds) >= 4 /\ RanAs(4, "terraform apply", "zero"))

\* reached: a forced deploy that provisioned and came to the cluster wait
C34_Witness ==
    /\ op = "deploy"
    /\ ~skip_if_exists
    /\ Len(cmds) >= 4
    /\ RanAs(2, "terraform init -upgrade", "zero")
    /\ RanAs(3, "terraform validate", "zero")
    /\ RanAs(4, "terraform apply", "zero")
    /\ eksState = "success"


\* the service type the plan gives to a node ("absent": not in the plan)
TypeIn(plan, node) ==
    IF \E i \in 1..Len(plan) : plan[i].node = node
    THEN (CHOOSE e \in {plan[i] : i \in 1..Len(plan)} : e.node = node).service_type
    ELSE "absent"

\* the plan of a topology is as claimed: validator first and ClusterIP
\* unless public, the VFN second and LoadBalancer exactly without a
\* fullnode, the fullnode last and LoadBalancer, at most one of the two public
PlanAsClaimed(t) ==
    LET plan == InstallPlan(t) IN
    /\ plan[1].node = "validator"
    /\ plan[1].service_type = (IF t.validator_public THEN "LoadBalancer" ELSE "ClusterIP")
    /\ t.deploy_vfn =>
          /\ plan[2].node = "vfn"
          /\ (plan[2].service_type = "LoadBalancer") <=> ~t.deploy_fullnode
          /\ plan[2].service_type \in {"LoadBalancer", "ClusterIP"}
    /\ t.deploy_fullnode =>
          plan[Len(plan)] = [node |-> "fullnode", service_type |-> "LoadBalancer"]
    /\ Len(plan) = 1 + (IF t.deploy_vfn THEN 1 ELSE 0) + (IF t.deploy_fullnode THEN 1 ELSE 0)
    /\ ~(TypeIn(plan, "vfn") = "LoadBalancer" /\ TypeIn(plan, "fullnode") = "LoadBalancer")

\* C35: in the validator-vfn deploy the releases of the topology are
\* installed in the order validator, VFN, fullnode with the service types
\* of the plan: every topology's plan is as claimed, and a run whose
\* commands all succeeded has issued the Helm commands of a plan.
C35_TopologyInstalledInOrder ==
    /\ \A t \in Topologies : PlanAsClaimed(t)
    /\ (/\ op = "vfn_deploy" /\ Done
        /\ Len(cmds) >= 2
        /\ \A i \in 1..Len(cmds) : cmds[i].res = "zero"
        /\ exc \notin {"KeyboardInterrupt", "AttributeError"}) =>
          \E t \in Topologies :
              Cardinality(IndicesOf("helm upgrade --install")) = Len(InstallPlan(t))


\* C36: wait_until_active and wait_for_pod_ready report the fatal timeout
\* only after at least one poll, for every timeout >= 0, so that a cluster
\* that is ACTIVE at the first poll, and a pod that is Ready at the first
\* poll, are reported as success.
C36_ImmediateCheckBeforeTimeout ==
    /\ (eksState = "timeout") => eksPolls >= 1
    /\ (podState = "timeout") => podPolls >= 1
    /\ (eksPolls = 1 /\ status = "ACTIVE") => eksState = "success"
    /\ (podPolls = 1 /\ AnyReady(pods)) => podState = "ready"


\* C37: get_outputs raises nothing for any result of an output command that
\* exited zero: for JSON that is not an object it returns the empty
\* mapping, and for an object it returns, for exactly the keys whose entry
\* is a mapping with a `value` field, that value.
C37_GetOutputsNeverRaises ==
    (Applied("get_outputs") /\ call.in.spawned /\ call.in.rc = 0) =>
        LET text == call.in.stdout
            out == call.out[1] IN
        /\ out.exc = NoExc
        /\ (text.json = "nonobject") => out.val = EmptyMap
        /\ (text.json = "object") =>
              /\ DOMAIN out.val =
                    {key \in DOMAIN text.obj :
                        text.obj[key].isdict /\ text.obj[key].hasvalue}
              /\ \A key \in DOMAIN out.val : out.val[key] = text.obj[key].value


\* a step of destroy made inside the try block without a command: the
\* KeyboardInterrupt; it ends the operation with exit code 130 and no
\* warning, where a caught exception would go on to terraform destroy
InterruptedInTryStep ==
    (op = "destroy" /\ pc \in {"destroy_kubeconfig", "destroy_uninstall"} /\ cmds' = cmds) =>
        /\ exc' = "KeyboardInterrupt"
        /\ pc' = "done"
        /\ ~returned'
        /\ warned' = warned
        /\ exit_code' = <<ExitInterrupted>>

\* C38: a KeyboardInterrupt raised in destroy while the credential refresh
\* or the uninstall runs is not caught by the `except Exception` of the try
\* block: the operation ends there, terraform destroy is not issued, and
\* the CLI returns 130.
C38_InterruptNotBestEffort ==
    /\ [][InterruptedInTryStep]_vars
    /\ []((op = "destroy" /\ exc = "KeyboardInterrupt") =>
            /\ Done /\ ~returned
            /\ exit_code = <<ExitInterrupted>>
            /\ ~Issued("terraform destroy")
            /\ ~ENABLED Next)

\* reached: destroy interrupted while helm uninstall was due, after a
\* successful credential refresh
C38_Witness ==
    /\ op = "destroy"
    /\ exc = "KeyboardInterrupt"
    /\ Len(cmds) = 3
    /\ RanAs(3, "aws eks update-kubeconfig", "zero")
    /\ ~warned
    /\ exit_code = <<ExitInterrupted>>


\* the ends of deploy: its payload returned, or the fatal exit of fail(),
\* or an exception that leaves it
DeployEnded == Done /\ (returned \/ exc /= NoExc) /\ exit_code /= <<>>

\* the statements of deploy in program order, each loop as one stage
DeployOrder ==
    << {"cli_load_env"}, {"deploy_outputs"}, {"deploy_exists"}, {"tf_init"},
       {"tf_validate"}, {"tf_apply"}, {"tf_outputs"}, {"deploy_refresh"},
       {"wait_start"}, {"wait_test", "wait_poll", "wait_sleep"}, {"wait_return"},
       {"kubeconfig"}, {"helm_upgrade"}, {"validate_start"},
       {"pod_test", "pod_poll", "pod_sleep"}, {"pod_return"}, {"lb_start"},
       {"lb_test", "lb_read", "lb_probe", "lb_sleep"}, {"deploy_return"}, {"done"} >>

\* the stages still ahead of statement p
StagesLeft(p) ==
    Len(DeployOrder) - (CHOOSE i \in 1..Len(DeployOrder) : p \in DeployOrder[i])

\* the clock never passes the deadline by more than one poll and one sleep
TicksLeft == deadline + MaxCallTime + MaxInterval - clock

\* what is left of the loop the operation is in: for the deadline loops the
\* ticks up to the deadline, for the load-balancer loop the attempts of the
\* budget, and in both the statements left in the iteration
LoopLeft ==
    CASE pc \in {"wait_test", "pod_test"}   -> 3 * TicksLeft + 2
      [] pc \in {"wait_poll", "pod_poll"}   -> 3 * TicksLeft + 1
      [] pc \in {"wait_sleep", "pod_sleep"} -> 3 * TicksLeft
      [] pc = "lb_test"  -> 4 * (retries + 1 - attempt) + 3
      [] pc = "lb_read"  -> 4 * (retries + 1 - attempt) + 2
      [] pc = "lb_probe" -> 4 * (retries + 1 - attempt) + 1
      [] pc = "lb_sleep" -> 4 * (retries + 1 - attempt)
      [] OTHER -> 0

\* more than any loop has left
LoopSpan == 4 * (MaxTimeout + MaxCallTime + MaxInterval + MaxRetries + 2)

\* the variant of deploy: stages ahead first, then what is left of the loop
Rank == StagesLeft(pc) * LoopSpan + LoopLeft

\* C39: every execution of ClusterManager.deploy in which each external
\* call returns and the polling interval is positive comes to an end.  Every
\* step of deploy lowers Rank, a natural number: a step of a deadline loop
\* because the clock moves towards the deadline, a step of the
\* load-balancer loop because an attempt is used up, any other step because
\* it leaves its stage; and deploy can always take a step until it has
\* ended with its payload returned, a fatal exit or an exception.  So no
\* execution has more than Rank steps.
C39_DeployTerminates ==
    /\ [][Rank' < Rank]_vars
    /\ [](Rank \in Nat /\ LoopLeft < LoopSpan)
    /\ [](IF DeployEnded THEN Rank = 0 ELSE ENABLED NextDeploy)

\* reached: deploy returned its payload after the cluster wait and the pod
\* wait succeeded and the load-balancer loop slept before its last attempt
C39_Witness ==
    /\ op = "deploy"
    /\ Done /\ returned
    /\ eksState = "success"
    /\ podState = "ready"
    /\ lbState = "healthy"
    /\ lbSleeps >= 1

=============================================================================
